---- MODULE Spec2Model ----
(***************************************************************************)
(* Rail network clustering (RailNetworkImpl, TrainStation, Cluster) and    *)
(* the bidirectional resumable search (SerialAStar) of                     *)
(* src/GameEconomicsAndMechanics.ts.                                       *)
(***************************************************************************)
EXTENDS Integers, Sequences, FiniteSets, Bags, TLC

(***************************************************************************)
(* Bounds of the model.                                                    *)
(***************************************************************************)
\* number of stations that are registered at the same time
MaxStations == 6
\* size of the networks on which connectStation is invoked a second time
MaxReconnectStations == 3
\* largest of the small iteration budgets of one compute() call
MaxIterations == 2
\* highest level of a station unit
MaxLevel == 2
\* number of train stops handled in a row
MaxStops == 2
\* largest number of tries a search is given
MaxTries == 2
\* number of compute() calls on one search
MaxCalls == 3
\* the most tiles a trade ship travels
MaxTravel == 2
\* the most events of the game around one trade ship or train
MaxEvents == 2
\* number of game ticks a player execution is followed for
MaxTicks == 45
\* number of trade ships a port execution is followed to spawn
MaxSpawns == 2
\* number of game ticks a structure or station execution is followed for
MaxSteps == 14
\* number of stations a spawn rate is computed for
MaxCluster == 1300
\* largest maxDistance distanceFrom is asked for
MaxDistance == 5

(***************************************************************************)
(* Program constants.                                                      *)
(***************************************************************************)
maxConnectionDistance == 4
trainStationMinRange == 15
trainStationMaxRange == 80
railroadMaxSize == 100
\* iteration budget RailPathFinderServiceImpl gives a search
pathIterations == 5000
\* EconomicConfig.trainGold
trainGoldFriendly == 100000
trainGoldOther == 25000
\* TrainStationExecution.numCars, TrainExecution.spacing and speed
numCars == 5
spacing == 2
speed == 2
\* PlayerExecution.ticksPerClusterCalc, EconomicConfig.goldAdditionRate and
\* temporaryEmbargoDuration
ticksPerClusterCalc == 20
goldAdditionRate == 100
temporaryEmbargoDuration == 300
\* TrainStationExecution.ticksCooldown
ticksCooldown == 10

Null == 0

\* Tile of every unit (city / port / factory) of the map.  Units 1..6 sit on a
\* hexagon of side 60, each in range of its two ring neighbours only; unit 7
\* sits closer than trainStationMinRange to unit 1 and in range of units 2, 6.
TileX == <<60, 30, -30, -60, -30, 30, 50>>
TileY == <<0, 52, 52, 0, -52, -52, 8>>

Units == 1..Len(TileX)

\* lengths of the tile path the path service may return for one request:
\* no path, the longest accepted one, the shortest rejected one
PathLens == {0, railroadMaxSize - 1, railroadMaxSize}

ClusterIds == 1..(Len(TileX) + 1)

VARIABLES
  registered,   \* StationManagerImpl.stations: the units with a registered station
  railroads,    \* TrainStation.railroads, per station
  cluster,      \* TrainStation.cluster, per station (Null = null)
  stations,     \* Cluster.stations, per cluster object
  reconnected,  \* the registered station connectStation was invoked for again (or Null)
  hasTrainStation, \* Unit.hasTrainStation(), per unit
  world,        \* the graph and the constructor arguments of the search (or Null)
  astar,        \* the fields of the SerialAStar object (or Null)
  results,      \* what the calls of compute() returned so far
  gold,         \* Player.gold, per player
  lastStop,     \* the latest train stop: station, train owner, addGold calls (or Null)
  stopLog,      \* the stations whose stop handler ran, in order
  game,         \* units, players and their relations as the agents see them (or Null)
  train,        \* the fields of a TrainExecution (or Null)
  ship,         \* the fields of a TradeShipExecution (or Null)
  exec          \* the fields of an execution of another class (or Null)

railVars == <<registered, railroads, cluster, stations, reconnected, hasTrainStation>>

astarVars == <<world, astar, results>>

agentVars == <<gold, lastStop, stopLog, game, train, ship, exec>>

(***************************************************************************)
(* Helpers.                                                                *)
(***************************************************************************)
\* the element of a one-element set
the(S) == CHOOSE x \in S : TRUE

Min(S) == CHOOSE x \in S : \A y \in S : x <= y

Max(S) == CHOOSE x \in S : \A y \in S : y <= x

\* the elements of a finite set in some fixed order (iteration order of a JS Set)
RECURSIVE SetToSeq(_)
SetToSeq(S) ==
  IF S = {} THEN <<>>
  ELSE LET x == CHOOSE y \in S : TRUE IN <<x>> \o SetToSeq(S \ {x})

\* all orders in which the elements of S can be listed
RECURSIVE Perms(_)
Perms(S) ==
  IF S = {} THEN {<<>>}
  ELSE UNION {{<<x>> \o p : p \in Perms(S \ {x})} : x \in S}

DistSquared(a, b) ==
  (TileX[a] - TileX[b]) * (TileX[a] - TileX[b])
    + (TileY[a] - TileY[b]) * (TileY[a] - TileY[b])

\* Game.nearbyUnits: the units within range of a tile (the unit on the tile
\* itself included)
nearbyUnits(s, range) == {u \in Units : DistSquared(s, u) <= range * range}

\* neighbors.sort((a, b) => a.distSquared - b.distSquared): a stable sort of a
\* list whose initial order is the caller's; every ascending order can result
SortedNeighbors(s) ==
  {p \in Perms(nearbyUnits(s, trainStationMaxRange)) :
     \A i \in 1..(Len(p) - 1) : DistSquared(s, p[i]) <= DistSquared(s, p[i + 1])}

\* Unit.setTrainStation, on the flags of all units
setTrainStation(flags, u, hasStation) == [flags EXCEPT ![u] = hasStation]

\* StationManagerImpl.findStation: the registered station of a unit, or null
findStation(reg, u) == IF u \in reg THEN u ELSE Null

(***************************************************************************)
(* TrainStation / Railroad / Cluster.                                      *)
(***************************************************************************)
\* TrainStation.neighbors(): one entry per railroad of the station
neighbors(rr, s) ==
  LET rs == SetToSeq(rr[s])
  IN [i \in 1..Len(rs) |-> IF rs[i].from # s THEN rs[i].from ELSE rs[i].to]

SeqRange(q) == {q[i] : i \in 1..Len(q)}

\* new Railroad(from, to, path): a railroad object distinct from every existing one
NewRailroad(rr, from, to, len) ==
  [from |-> from, to |-> to, len |-> len,
   n |-> Min({k \in 0..Cardinality(rr[from] \cup rr[to]) :
              [from |-> from, to |-> to, len |-> len, n |-> k] \notin rr[from] \cup rr[to]})]

\* Railroad.delete: the railroad leaves the railroad sets of both its stations
RailroadDelete(rr, r) ==
  [rr EXCEPT ![r.from] = @ \ {r}, ![r.to] = @ \ {r}]

\* new Cluster(): a cluster object no registered station refers to
NewCluster(reg, cl) == Min({c \in ClusterIds : \A u \in reg : cl[u] # c})

\* Cluster.addStation, on the pair (TrainStation.cluster, Cluster.stations)
addStation(st, c, s) ==
  [cl |-> [st.cl EXCEPT ![s] = c], mem |-> [st.mem EXCEPT ![c] = @ \cup {s}]]

\* Cluster.addStations / Cluster.merge: addStation for every station of a set
RECURSIVE addStations(_, _, _)
addStations(st, c, S) ==
  IF S = {} THEN st
  ELSE LET s == CHOOSE x \in S : TRUE
       IN addStations(addStation(st, c, s), c, S \ {s})

(***************************************************************************)
(* RailNetworkImpl.                                                        *)
(***************************************************************************)
\* distanceFrom, the loop: queue of {station, distance} entries from `head` on
RECURSIVE distanceFromLoop(_, _, _, _, _)
distanceFromLoop(rr, dest, maxDistance, queue, visited) ==
  IF queue = <<>> THEN -1
  ELSE LET e == Head(queue)
           seen == visited \cup {e.station}
           nb == neighbors(rr, e.station)
       IN IF e.station \in visited
            THEN distanceFromLoop(rr, dest, maxDistance, Tail(queue), visited)
          ELSE IF e.distance >= maxDistance
            THEN distanceFromLoop(rr, dest, maxDistance, Tail(queue), seen)
          ELSE IF dest \in SeqRange(nb)
            THEN e.distance + 1
          ELSE distanceFromLoop(rr, dest, maxDistance,
                 Tail(queue) \o SelectSeq([i \in 1..Len(nb) |->
                                  [station |-> nb[i], distance |-> e.distance + 1]],
                                LAMBDA x : x.station \notin seen),
                 seen)

\* a search that walks on beyond maxDistance
distanceFromUnlimited(rr, start, dest, maxDistance) ==
  IF start = dest THEN 0
  ELSE distanceFromLoop(rr, dest, Len(TileX), <<[station |-> start, distance |-> 0]>>, {})

\* RailNetworkImpl.distanceFrom: hops from start to dest, -1 beyond maxDistance
distanceFrom(rr, start, dest, maxDistance) ==
  IF start = dest THEN 0
  ELSE distanceFromLoop(rr, dest, maxDistance,
                        <<[station |-> start, distance |-> 0]>>, {})

\* RailNetworkImpl.computeCluster: the stations reachable from start
RECURSIVE computeClusterLoop(_, _, _)
computeClusterLoop(rr, queue, visited) ==
  IF queue = <<>> THEN visited
  ELSE LET current == Head(queue)
           seen == visited \cup {current}
           nb == neighbors(rr, current)
       IN IF current \in visited
            THEN computeClusterLoop(rr, Tail(queue), visited)
          ELSE computeClusterLoop(rr,
                 Tail(queue) \o SelectSeq(nb, LAMBDA x : x \notin seen), seen)

computeCluster(rr, start) == computeClusterLoop(rr, <<start>>, {})

\* a connect that also accepts a path of exactly railroadMaxSize tiles
PathAcceptedInclusive(len) == len > 0 /\ len <= railroadMaxSize

\* the test of connect on the path the path service returned
PathAccepted(len) == len > 0 /\ len < railroadMaxSize

\* RailNetworkImpl.connect: the railroad sets after the call, and its result
connect(rr, from, to, len) ==
  IF PathAccepted(len)
    THEN LET railRoad == NewRailroad(rr, from, to, len)
         IN [ok |-> TRUE,
             rr |-> [rr EXCEPT ![from] = @ \cup {railRoad}, ![to] = @ \cup {railRoad}]]
    ELSE [ok |-> FALSE, rr |-> rr]

\* a connectToNearbyStations that ignores the hop distance
connectionAvailableAlways(distanceToStation) == TRUE

\* connectionAvailable of connectToNearbyStations
connectionAvailable(distanceToStation) ==
  distanceToStation > maxConnectionDistance \/ distanceToStation = -1

\* a distance test that compares the squared distance with the unsquared range
OutsideMinRangeUnsquared(distSquared) == distSquared > trainStationMinRange

\* the distance test of connectToNearbyStations
OutsideMinRange(distSquared) ==
  distSquared > trainStationMinRange * trainStationMinRange

\* a mergeClusters that leaves the clusters as they are
mergeClustersSkipped(reg, st, clustersToMerge) == st

\* RailNetworkImpl.mergeClusters
mergeClusters(reg, st, clustersToMerge) ==
  LET merged == NewCluster(reg, st.cl)
      all == UNION {st.mem[c] : c \in clustersToMerge}
      r == addStations([cl |-> st.cl, mem |-> [st.mem EXCEPT ![merged] = {}]], merged, all)
  IN [st EXCEPT !.cl = r.cl, !.mem = r.mem]

\* the for loop of connectToNearbyStations over the sorted candidates, from
\* candidate i on; paths[n] is the length of the tile path the path service
\* returns for the pair (station, n)
RECURSIVE connectLoop(_, _, _, _, _, _)
connectLoop(reg, station, order, i, paths, st) ==
  IF i > Len(order) THEN st
  ELSE
    LET n == order[i]
        next == connectLoop(reg, station, order, i + 1, paths, st)
    IN IF n = station THEN next
       ELSE IF findStation(reg, n) = Null THEN next
       ELSE
         LET distanceToStation == distanceFrom(st.rr, n, station, maxConnectionDistance)
             neighborCluster == st.cl[n]
             c == connect(st.rr, station, n, paths[n])
             a == addStation(st, neighborCluster, station)
         IN IF neighborCluster = Null THEN next
            ELSE IF connectionAvailable(distanceToStation)
                    /\ OutsideMinRange(DistSquared(station, n))
                    /\ c.ok
              THEN connectLoop(reg, station, order, i + 1, paths,
                     [rr |-> c.rr, cl |-> a.cl, mem |-> a.mem,
                      editedClusters |-> st.editedClusters \cup {neighborCluster}])
            ELSE next

\* RailNetworkImpl.connectToNearbyStations
connectToNearbyStations(reg, station, order, paths, st) ==
  LET l == connectLoop(reg, station, order, 1, paths, st)
      newCluster == NewCluster(reg, l.cl)
      single == addStation([cl |-> l.cl, mem |-> [l.mem EXCEPT ![newCluster] = {}]],
                           newCluster, station)
  IN IF Cardinality(l.editedClusters) > 1
       THEN mergeClusters(reg, l, l.editedClusters)
     ELSE IF Cardinality(l.editedClusters) = 0
       THEN [l EXCEPT !.cl = single.cl, !.mem = single.mem]
     ELSE l

\* RailNetworkImpl.deleteCluster
deleteCluster(st, c) ==
  [st EXCEPT !.cl = [u \in Units |-> IF u \in st.mem[c] THEN Null ELSE st.cl[u]],
             !.mem = [st.mem EXCEPT ![c] = {}]]

\* RailNetworkImpl.disconnectFromNetwork
RECURSIVE deleteRailroads(_, _)
deleteRailroads(rr, rails) ==
  IF rails = {} THEN rr
  ELSE LET r == CHOOSE x \in rails : TRUE
       IN deleteRailroads(RailroadDelete(rr, r), rails \ {r})

disconnectFromNetwork(st, station) ==
  LET rr1 == [deleteRailroads(st.rr, st.rr[station]) EXCEPT ![station] = {}]
      c == st.cl[station]
      st1 == [st EXCEPT !.rr = rr1]
  IN IF c # Null /\ Cardinality(st.mem[c]) = 1 THEN deleteCluster(st1, c) ELSE st1

\* the hub branch of removeStation: a new cluster for the component of every
\* former neighbor, from neighbor i on
RECURSIVE rebuildClusters(_, _, _, _)
rebuildClusters(reg, nbrs, i, st) ==
  IF i > Len(nbrs) THEN st
  ELSE LET found == computeCluster(st.rr, nbrs[i])
           newCluster == NewCluster(reg, st.cl)
           r == addStations([cl |-> st.cl, mem |-> [st.mem EXCEPT ![newCluster] = {}]],
                            newCluster, found)
       IN rebuildClusters(reg, nbrs, i + 1, [st EXCEPT !.cl = r.cl, !.mem = r.mem])

\* Objects that no registered station refers to any more are dropped (the
\* station object of a removed unit, clusters no registered station is in), and
\* every remaining cluster object, which has no identity but the references to
\* it, is named after the first station that refers to it.
Collect(reg, st) ==
  LET name == [u \in Units |->
                 IF u \in reg /\ st.cl[u] # Null
                   THEN Min({v \in reg : st.cl[v] = st.cl[u]})
                   ELSE Null]
  IN [st EXCEPT
        !.cl = name,
        !.mem = [c \in ClusterIds |->
                   IF c \in Units /\ name[c] = c THEN st.mem[st.cl[c]] ELSE {}]]

Graph == [rr |-> railroads, cl |-> cluster, mem |-> stations, editedClusters |-> {}]

\* RailNetworkImpl.connectStation on a station whose unit is u
connectStation(u, order, paths) ==
  LET reg == registered \cup {u}
      r == Collect(reg, connectToNearbyStations(reg, u, order, paths, Graph))
  IN /\ registered' = reg
     /\ railroads' = r.rr
     /\ cluster' = r.cl
     /\ stations' = r.mem

\* A TrainStationExecution is constructed for a unit that is new or has no
\* train station flag (FactoryExecution.createStation), which sets the flag,
\* and its first tick connects a new TrainStation for the unit
ConnectStation ==
  /\ reconnected = Null
  /\ UNCHANGED <<astarVars, agentVars>>
  /\ Cardinality(registered) < MaxStations
  /\ UNCHANGED reconnected
  /\ \E u \in Units \ registered :
    \E order \in SortedNeighbors(u) :
      \E paths \in [(nearbyUnits(u, trainStationMaxRange) \cap registered) -> PathLens] :
        /\ ~hasTrainStation[u]
        /\ connectStation(u, order, paths)
        /\ hasTrainStation' = setTrainStation(hasTrainStation, u, TRUE)

\* RailNetwork.connectStation invoked a second time, for a registered station;
\* the run is followed up to the end of that call
ReconnectStation ==
  /\ reconnected = Null
  /\ UNCHANGED <<astarVars, agentVars>>
  /\ Cardinality(registered) <= MaxReconnectStations
  /\ \E u \in registered :
       \E order \in SortedNeighbors(u) :
         \E paths \in [(nearbyUnits(u, trainStationMaxRange) \cap registered) -> PathLens] :
           /\ connectStation(u, order, paths)
           /\ reconnected' = u
           /\ UNCHANGED hasTrainStation

\* RailNetworkImpl.removeStation for a unit that has a registered station
removeStationOf(station) ==
  LET nbrs == neighbors(railroads, station)
      d == disconnectFromNetwork(Graph, station)
      reg == registered \ {station}
      c == d.cl[station]
      r == IF c = Null THEN d
           ELSE IF Len(nbrs) = 1 THEN [d EXCEPT !.mem = [d.mem EXCEPT ![c] = @ \ {station}]]
           ELSE IF Len(nbrs) > 1 THEN rebuildClusters(reg, nbrs, 1, d)
           ELSE d
      g == Collect(reg, r)
  IN /\ registered' = reg
     /\ railroads' = g.rr
     /\ cluster' = g.cl
     /\ stations' = g.mem
     /\ hasTrainStation' = IF c = Null THEN hasTrainStation
                           ELSE setTrainStation(hasTrainStation, station, FALSE)

RemoveStation ==
  /\ reconnected = Null
  /\ UNCHANGED <<astarVars, agentVars>>
  /\ UNCHANGED reconnected
  /\ \E u \in registered : removeStationOf(findStation(registered, u))

(***************************************************************************)
(* PathfindingService: the graph view of a terrain tile grid               *)
(* (GameMapAdapter over a GameMap) and SerialAStar.                        *)
(***************************************************************************)
\* GameMap.x / GameMap.y of the tiles of the map, a grid of three rows of three
MapX == <<0, 1, 2, 0, 1, 2, 0, 1, 2>>
MapY == <<0, 0, 0, 1, 1, 1, 2, 2, 2>>

\* tile references (all of them truthy values)
Tiles == 1..Len(MapX)

\* GameMap.cost of the tiles: an even map, and one with two costly tiles
MapCosts == {<<1, 1, 1, 1, 1, 1, 1, 1, 1>>, <<1, 5, 1, 1, 5, 1, 1, 1, 1>>}

\* Map.get of a key that was never set
Undefined == -1

Abs(n) == IF n < 0 THEN -n ELSE n

Sign(n) == IF n < 0 THEN -1 ELSE IF n > 0 THEN 1 ELSE 0

\* two tiles of the grid lie side by side
Adjacent(a, b) == Abs(MapX[a] - MapX[b]) + Abs(MapY[a] - MapY[b]) = 1

RECURSIVE ascending(_)
ascending(S) == IF S = {} THEN <<>> ELSE <<Min(S)>> \o ascending(S \ {Min(S)})

\* GameMap.neighbors: the tiles next to a tile, as an array
mapNeighbors(node) == ascending({t \in Tiles : Adjacent(node, t)})

\* GameMapAdapter.waterPenalty
waterPenalty == 3

\* GameMapAdapter.cost: water costs more on a land path
cost(w, node) ==
  w.cost[node] + (IF ~w.waterPath /\ node \in w.water THEN waterPenalty ELSE 0)

\* every tile can be entered
isTraversableAnywhere(w, from, to) == TRUE

\* GameMapAdapter.isTraversable: water on a water path; land, or from or to a
\* shoreline tile, on a land path
isTraversable(w, from, to) ==
  IF w.waterPath THEN to \in w.water
  ELSE to \notin w.water \/ from \in w.shore \/ to \in w.shore

\* SerialAStar.heuristic
heuristic(a, b) == 2 * (Abs(MapX[a] - MapX[b]) + Abs(MapY[a] - MapY[b]))

\* SerialAStar.getDirection
getDirection(from, to) ==
  <<Sign(MapX[to] - MapX[from]), Sign(MapY[to] - MapY[from])>>

RECURSIVE findClosestLoop(_, _, _, _)
findClosestLoop(sources, tile, i, closest) ==
  IF i > Len(sources) THEN closest
  ELSE findClosestLoop(sources, tile, i + 1,
         IF heuristic(tile, sources[i]) < heuristic(tile, closest)
           THEN sources[i] ELSE closest)

\* SerialAStar.findClosestSource: sources.reduce without an initial value
findClosestSource(sources, tile) == findClosestLoop(sources, tile, 2, sources[1])

\* FastPriorityQueue.add
add(q, item) == Append(q, item)

\* FastPriorityQueue.poll with the comparator a.fScore < b.fScore: the position
\* of an entry of least fScore; among entries of equal fScore the queue returns
\* the oldest or the newest one, whichever the search was built with
pollIndex(q, lifo) ==
  CHOOSE i \in 1..Len(q) :
    \A j \in 1..Len(q) :
      \/ q[i].fScore < q[j].fScore
      \/ q[i].fScore = q[j].fScore /\ (IF lifo THEN j <= i ELSE i <= j)

without(q, i) == SubSeq(q, 1, i - 1) \o SubSeq(q, i + 1, Len(q))

RECURSIVE seedSources(_, _, _, _)
seedSources(sources, dst, i, a) ==
  IF i > Len(sources) THEN a
  ELSE seedSources(sources, dst, i + 1,
         [a EXCEPT !.fwdGScore[sources[i]] = 0,
                   !.fwdOpenSet = add(@, [tile |-> sources[i],
                                          fScore |-> heuristic(sources[i], dst)])])

\* new SerialAStar(src, dst, iterations, maxTries, graph, directionChangePenalty)
NewSerialAStar(w) ==
  seedSources(w.sources, w.dst, 1,
    [fwdOpenSet |-> <<>>,
     bwdOpenSet |-> <<[tile |-> w.dst,
                       fScore |-> heuristic(w.dst, findClosestSource(w.sources, w.dst))]>>,
     fwdCameFrom |-> [t \in Tiles |-> Null],
     bwdCameFrom |-> [t \in Tiles |-> Null],
     fwdGScore |-> [t \in Tiles |-> Undefined],
     bwdGScore |-> [t \in Tiles |-> IF t = w.dst THEN 0 ELSE Undefined],
     meetingPoint |-> Null,
     completed |-> FALSE,
     maxTries |-> w.maxTries])

\* (gScore.get(current) ?? 0) + this.graph.cost(neighbor)
tentativeGScore(g, c) == (IF g = Undefined THEN 0 ELSE g) + c

\* one pass of the for loop of SerialAStar.expandNode
expandNeighbor(w, a, current, neighbor, isForward) ==
  LET target == IF isForward THEN w.dst ELSE findClosestSource(w.sources, w.dst)
      gScore == IF isForward THEN a.fwdGScore ELSE a.bwdGScore
      cameFrom == IF isForward THEN a.fwdCameFrom ELSE a.bwdCameFrom
      prev == cameFrom[current]
      penalty == IF /\ w.directionChangePenalty > 0
                    /\ prev # Null
                    /\ getDirection(prev, current) # getDirection(current, neighbor)
                   THEN w.directionChangePenalty ELSE 0
      totalG == tentativeGScore(gScore[current], cost(w, neighbor)) + penalty
      g == gScore[neighbor]
      item == [tile |-> neighbor, fScore |-> totalG + heuristic(neighbor, target)]
  IN IF neighbor # target /\ ~isTraversable(w, current, neighbor) THEN a
     ELSE IF g = Undefined \/ totalG < g
       THEN IF isForward
              THEN [a EXCEPT !.fwdCameFrom[neighbor] = current,
                             !.fwdGScore[neighbor] = totalG,
                             !.fwdOpenSet = add(@, item)]
              ELSE [a EXCEPT !.bwdCameFrom[neighbor] = current,
                             !.bwdGScore[neighbor] = totalG,
                             !.bwdOpenSet = add(@, item)]
     ELSE a

RECURSIVE expandLoop(_, _, _, _, _, _)
expandLoop(w, a, current, nbrs, i, isForward) ==
  IF i > Len(nbrs) THEN a
  ELSE expandLoop(w, expandNeighbor(w, a, current, nbrs[i], isForward),
                  current, nbrs, i + 1, isForward)

\* SerialAStar.expandNode
expandNode(w, a, current, isForward) ==
  expandLoop(w, a, current, mapNeighbors(current), 1, isForward)

\* the budget is spent only once maxTries is negative
TriesSpentLate(maxTries) == maxTries < 0

\* this.maxTries <= 0
TriesSpent(maxTries) == maxTries <= 0

\* the while loop of SerialAStar.compute; the outcome is the search after the
\* call, the value returned, and whether the call ended on its iteration budget
RECURSIVE computeLoop(_, _, _)
computeLoop(w, a, iterations) ==
  IF a.fwdOpenSet = <<>> \/ a.bwdOpenSet = <<>>
    THEN [a |-> a,
          type |-> IF a.completed THEN "Completed" ELSE "PathNotFound",
          budgetOut |-> FALSE]
  ELSE IF iterations - 1 <= 0
    THEN [a |-> a,
          type |-> IF TriesSpent(a.maxTries) THEN "PathNotFound" ELSE "Pending",
          budgetOut |-> TRUE]
  ELSE
    LET fi == pollIndex(a.fwdOpenSet, w.lifo)
        fwdCurrent == a.fwdOpenSet[fi].tile
        a1 == [a EXCEPT !.fwdOpenSet = without(@, fi)]
    IN IF a1.bwdGScore[fwdCurrent] # Undefined
         THEN [a |-> [a1 EXCEPT !.meetingPoint = fwdCurrent, !.completed = TRUE],
               type |-> "Completed", budgetOut |-> FALSE]
       ELSE
         LET a2 == expandNode(w, a1, fwdCurrent, TRUE)
             bi == pollIndex(a2.bwdOpenSet, w.lifo)
             bwdCurrent == a2.bwdOpenSet[bi].tile
             a3 == [a2 EXCEPT !.bwdOpenSet = without(@, bi)]
         IN IF a3.fwdGScore[bwdCurrent] # Undefined
              THEN [a |-> [a3 EXCEPT !.meetingPoint = bwdCurrent, !.completed = TRUE],
                    type |-> "Completed", budgetOut |-> FALSE]
            ELSE computeLoop(w, expandNode(w, a3, bwdCurrent, FALSE), iterations - 1)

\* every call starts the search afresh
computeRestarted(w, a) ==
  IF a.completed
    THEN [a |-> a, type |-> "Completed", budgetOut |-> FALSE]
  ELSE computeLoop(w, [NewSerialAStar(w) EXCEPT !.maxTries = a.maxTries - 1],
                   w.iterations)

\* SerialAStar.compute
compute(w, a) ==
  IF a.completed
    THEN [a |-> a, type |-> "Completed", budgetOut |-> FALSE]
  ELSE computeLoop(w, [a EXCEPT !.maxTries = @ - 1], w.iterations)

RECURSIVE chain(_, _)
\* the nodes that follow a node in a came-from map, up to the first unset one
chain(cameFrom, current) ==
  IF cameFrom[current] = Null THEN <<>>
  ELSE <<cameFrom[current]>> \o chain(cameFrom, cameFrom[current])

Reverse(q) == [i \in 1..Len(q) |-> q[Len(q) + 1 - i]]

\* the path stops at the meeting point
reconstructPathForward(a) ==
  IF a.meetingPoint = Null THEN <<>>
  ELSE Reverse(chain(a.fwdCameFrom, a.meetingPoint)) \o <<a.meetingPoint>>

\* SerialAStar.reconstructPath
reconstructPath(a) ==
  IF a.meetingPoint = Null THEN <<>>
  ELSE Reverse(chain(a.fwdCameFrom, a.meetingPoint))
         \o <<a.meetingPoint>>
         \o chain(a.bwdCameFrom, a.meetingPoint)

\* the land tiles of the map (the others are water): none, any single tile, a
\* corner cut off, a wall across the map, a diagonal that parts the water
Lands == {{}} \cup {{t} : t \in Tiles} \cup {{2, 4}, {4, 5, 6}, {1, 5, 9}}

\* the arrays of source tiles a search is started from
SourceLists == {<<1>>, <<1, 3>>, <<9, 1>>, <<7, 1>>}

\* directionChangePenalty: the default, and the value findTilePath passes
Penalties == {0, 3}

\* iteration budgets: the small ones, and the one of the rail path service
Iterations == 1..MaxIterations \cup {pathIterations}

\* the graph adapter and the constructor arguments of a search over water
World(land, costs, sources, dst, iterations, maxTries, penalty, lifo) ==
  [water |-> Tiles \ land, shore |-> {}, waterPath |-> TRUE, cost |-> costs,
   sources |-> sources, dst |-> dst,
   iterations |-> iterations, maxTries |-> maxTries,
   directionChangePenalty |-> penalty, lifo |-> lifo]

\* no search has been constructed
NoSearch ==
  /\ world = Null
  /\ astar = Null
  /\ results = <<>>

\* a caller invokes compute() on the search, whatever the last call returned
Compute ==
  /\ Len(results) < MaxCalls
  /\ LET r == compute(world, astar)
     IN /\ astar' = r.a
        /\ results' = Append(results, [type |-> r.type, budgetOut |-> r.budgetOut,
                                       maxTries |-> r.a.maxTries])
  /\ UNCHANGED <<world, railVars, agentVars>>

\* ---------------------------------------------------------------------
\* RailPathFinderServiceImpl
\* ---------------------------------------------------------------------

\* max tries RailPathFinderServiceImpl gives a search
pathTries == 20

\* miniMap.ref(Math.floor(gameMap.x(t) / 2), Math.floor(gameMap.y(t) / 2)) of
\* a tile of the game map, which is twice as wide and as high as the mini map
miniRef(t) == 3 * (((t - 1) \div 6) \div 2) + (((t - 1) % 6) \div 2) + 1

\* the SerialAStar arguments of a MiniAStar over the mini map m
MiniAStar(m, src, dst, iterations, maxTries, waterPath, penalty, lifo) ==
  [water |-> Tiles \ m.land, shore |-> m.shore, waterPath |-> waterPath,
   cost |-> m.costs, sources |-> <<miniRef(src)>>, dst |-> miniRef(dst),
   iterations |-> iterations, maxTries |-> maxTries,
   directionChangePenalty |-> penalty, lifo |-> lifo]

\* the SerialAStar arguments of a search over the station-adjacency graph:
\* stations on the tiles at, each joined to the stations on the tiles next to it
TrainStationMapAdapter(at, from, to, iterations, maxTries, lifo) ==
  [water |-> at, shore |-> {}, waterPath |-> TRUE,
   cost |-> [t \in Tiles |-> 1], sources |-> <<from>>, dst |-> to,
   iterations |-> iterations, maxTries |-> maxTries,
   directionChangePenalty |-> 0, lifo |-> lifo]

\* what a call of the path service leaves behind: the arguments of the search,
\* the search after the call, and what the caller learns: the path returned
\* (what compute returned and the tries left are recorded with it)
served(method, w, r) ==
  [world |-> w, a |-> r.a,
   answer |-> [method |-> method, type |-> r.type, budgetOut |-> r.budgetOut,
               maxTries |-> r.a.maxTries,
               path |-> IF r.type = "Completed" THEN reconstructPath(r.a) ELSE <<>>]]

\* a service that calls compute once more when it returns Pending
findTilePathResumes(m, from, to, iterations, lifo) ==
  LET w == MiniAStar(m, from, to, iterations, pathTries, FALSE, 3, lifo)
  IN the({served("findTilePath", w, IF r.type = "Pending" THEN compute(w, r.a) ELSE r) :
          r \in {compute(w, NewSerialAStar(w))}})

\* RailPathFinderServiceImpl.findTilePath; the iteration budget is an argument
\* here, so that a search can outlast it on a map of nine tiles
findTilePath(m, from, to, iterations, lifo) ==
  LET w == MiniAStar(m, from, to, iterations, pathTries, FALSE, 3, lifo)
  IN the({served("findTilePath", w, r) : r \in {compute(w, NewSerialAStar(w))}})

\* RailPathFinderServiceImpl.findStationsPath
findStationsPath(at, from, to, iterations, lifo) ==
  LET w == TrainStationMapAdapter(at, from, to, iterations, pathTries, lifo)
  IN the({served("findStationsPath", w, r) : r \in {compute(w, NewSerialAStar(w))}})

\* the mini maps: the land tiles, which of them are shoreline, the costs
MiniMaps ==
  {[land |-> land, shore |-> shore, costs |-> costs] :
     land \in Lands \cup {Tiles, Tiles \ {5}, Tiles \ {4, 5, 6}},
     shore \in {{}, {4, 6}}, costs \in MapCosts}

\* the game tiles a railroad is asked for
StationTiles == {1, 8, 17, 36}

\* the tiles that hold the stations of a network
StationNetworks == {Tiles, Tiles \ {5}, Tiles \ {4, 5, 6}, {1, 2, 3}}

\* connect asks the service for the tile path between two stations
FindTilePath ==
  /\ results = <<>>
  /\ \E m \in MiniMaps, from \in StationTiles, to \in StationTiles :
       \E iterations \in Iterations, lifo \in BOOLEAN :
         \E s \in {findTilePath(m, from, to, iterations, lifo)} :
           /\ world' = s.world
           /\ astar' = s.a
           /\ results' = <<s.answer>>
  /\ UNCHANGED <<railVars, agentVars>>

\* TrainExecution.init asks the service for the route between two stations
FindStationsPath ==
  /\ results = <<>>
  /\ \E at \in StationNetworks :
       \E from \in at, to \in at :
         \E iterations \in Iterations, lifo \in BOOLEAN :
           \E s \in {findStationsPath(at, from, to, iterations, lifo)} :
             /\ world' = s.world
             /\ astar' = s.a
             /\ results' = <<s.answer>>
  /\ UNCHANGED <<railVars, agentVars>>

\* Execution: the scheduler of the game
scheduledAlways(e) == TRUE

\* the scheduler ticks an execution once per step while it is active
scheduled(e) == e.active

(***************************************************************************)
(* Players, gold and the train stop handlers.                              *)
(***************************************************************************)
Players == {1, 2, 3}

\* unit types a station unit can have: the three with a stop handler and one
\* without
StationTypes == {"City", "Port", "Factory", "Construction"}

Levels == 1..MaxLevel

\* EconomicConfig.trainGold
trainGold(isFriendly) == IF isFriendly THEN trainGoldFriendly ELSE trainGoldOther

\* Player.addGold
addGold(g, player, amount) == [g EXCEPT ![player] = @ + amount]

\* a friendly stop pays the train owner only
creditsTrainOwnerOnly(stationOwner, trainOwner, isFriendly, goldBonus) ==
  <<[player |-> trainOwner, amount |-> goldBonus]>>

\* the addGold calls of a stop handler, in order
credits(stationOwner, trainOwner, isFriendly, goldBonus) ==
  (IF isFriendly THEN <<[player |-> stationOwner, amount |-> goldBonus]>> ELSE <<>>)
    \o <<[player |-> trainOwner, amount |-> goldBonus]>>

\* CityStopHandler.onStop
CityStopHandler(level, stationOwner, trainOwner, isFriendly) ==
  credits(stationOwner, trainOwner, isFriendly, trainGold(isFriendly) * (level + 1))

\* PortStopHandler.onStop
PortStopHandler(level, stationOwner, trainOwner, isFriendly) ==
  credits(stationOwner, trainOwner, isFriendly, trainGold(isFriendly) * (level + 1))

\* the factory pays by level as well
FactoryStopHandlerByLevel(level, stationOwner, trainOwner, isFriendly) ==
  credits(stationOwner, trainOwner, isFriendly, trainGold(isFriendly) * (level + 1))

\* FactoryStopHandler.onStop
FactoryStopHandler(level, stationOwner, trainOwner, isFriendly) ==
  credits(stationOwner, trainOwner, isFriendly, trainGold(isFriendly))

\* TrainStation.onTrainStop: the addGold calls of the handler of the unit type,
\* none when the type has no handler
onTrainStop(type, level, stationOwner, trainOwner, isFriendly) ==
  CASE type = "City" -> CityStopHandler(level, stationOwner, trainOwner, isFriendly)
    [] type = "Port" -> PortStopHandler(level, stationOwner, trainOwner, isFriendly)
    [] type = "Factory" -> FactoryStopHandler(level, stationOwner, trainOwner, isFriendly)
    [] OTHER -> <<>>

RECURSIVE payAll(_, _, _)
payAll(g, calls, i) ==
  IF i > Len(calls) THEN g
  ELSE payAll(addGold(g, calls[i].player, calls[i].amount), calls, i + 1)

\* a stop as the handler sees it, with the addGold calls it makes
Stop(type, level, stationOwner, trainOwner, isFriendly) ==
  [type |-> type, level |-> level, stationOwner |-> stationOwner,
   trainOwner |-> trainOwner, isFriendly |-> isFriendly,
   calls |-> onTrainStop(type, level, stationOwner, trainOwner, isFriendly)]

\* no train, no ship, no gold earned
NoAgents ==
  /\ gold = [p \in Players |-> 0]
  /\ lastStop = Null
  /\ stopLog = <<>>
  /\ game = Null
  /\ train = Null
  /\ ship = Null
  /\ exec = Null

\* a train of some owner stops at a station of some type, level and owner;
\* stationOwner.isFriendly(trainOwner) is whatever the players' relations make it
OnTrainStop ==
  /\ Len(stopLog) < MaxStops
  /\ \E type \in StationTypes, level \in Levels :
       \E stationOwner \in Players, trainOwner \in Players, isFriendly \in BOOLEAN :
         LET stop == Stop(type, level, stationOwner, trainOwner, isFriendly)
         IN /\ lastStop' = stop
            /\ gold' = payAll(gold, stop.calls, 1)
            /\ stopLog' = Append(stopLog, type)
  /\ UNCHANGED <<railVars, astarVars, exec, game, train, ship>>

\* ---------------------------------------------------------------------
\* TradeShipExecution
\* ---------------------------------------------------------------------

\* the port units of the game and the tile of each, along a strait of sea
\* tiles; the straight-line distance of two tiles is their difference
Ports == 1..3

PortTile == <<1, 3, 4>>

\* owner of each port when the trade ship is sent: PortExecution sends it from
\* a port of its player (port 1) to a trading port of another player
PortOwners == {<<1, 2, 3>>, <<1, 2, 2>>, <<1, 2, 1>>, <<1, 1, 2>>}

PathResults == {"Pending", "NextTile", "Completed", "PathNotFound"}

RECURSIVE Pow(_, _)
Pow(b, e) == IF e = 0 THEN 1 ELSE b * Pow(b, e - 1)

RECURSIVE portBonus(_, _)
\* the sum over i < k of basePortBonus * diminishingFactor^i, as a multiple
\* of 1 / (4 * 10^numPorts)
portBonus(numPorts, k) ==
  IF k = 0 THEN 0
  ELSE portBonus(numPorts, k - 1) + Pow(9, k - 1) * Pow(10, numPorts - (k - 1))

tradeShipGold(dist, numPorts) ==
  LET baseGold == 50000 + 100 * dist
      unit == 4 * Pow(10, numPorts)
      totalMultiplier == unit + portBonus(numPorts, numPorts)
  IN (baseGold * totalMultiplier) \div unit

\* player.units(UnitType.Port) and player.unitCount(UnitType.Port)
units(g, player) == {p \in Ports : g.ports[p].active /\ g.ports[p].owner = player}

unitCount(g, player) == Cardinality(units(g, player))

canTrade(g, player, other) == {player, other} \notin g.embargo

\* the comparator of the sort: negative when port a is nearer to the tile
distSortUnit(g, tile, a, b) ==
  Abs(g.ports[a].tile - tile) - Abs(g.ports[b].tile - tile)

\* the ports that can come first when the owner's ports are sorted
sortedFirst(g, s) ==
  {a \in units(g, s.owner) :
     \A b \in units(g, s.owner) : distSortUnit(g, s.tile, a, b) <= 0}

\* the next tile of the path from a tile to the destination
nextTile(curTile, dst) == curTile + Sign(dst - curTile)

NewTradeShipExecution(origOwner, srcPort, dstPort) ==
  [active |-> TRUE, built |-> FALSE, unitActive |-> FALSE, owner |-> origOwner,
   tile |-> Null, targetUnit |-> Null, wasCaptured |-> FALSE,
   tilesTraveled |-> 0, origOwner |-> origOwner, srcPort |-> srcPort,
   dstPort |-> dstPort]

\* what a tick leaves behind: the execution, the addGold calls it made and
\* the branch it ended in
ticked(s, calls, outcome) == [ship |-> s, calls |-> calls, outcome |-> outcome]

\* this.tradeShip.delete(false); this.active = false
deleteShip(s) == [s EXCEPT !.unitActive = FALSE, !.active = FALSE]

completeSplit(g, s) ==
  LET amount == tradeShipGold(s.tilesTraveled, unitCount(g, s.owner))
  IN ticked(deleteShip(s),
            IF s.wasCaptured
              THEN <<[player |-> s.owner, amount |-> amount]>>
              ELSE <<[player |-> g.ports[s.srcPort].owner, amount |-> amount \div 2],
                     [player |-> g.ports[s.dstPort].owner, amount |-> amount \div 2]>>,
            <<"completed">>)

complete(g, s) ==
  LET amount == tradeShipGold(s.tilesTraveled, unitCount(g, s.owner))
  IN ticked(deleteShip(s),
            IF s.wasCaptured
              THEN <<[player |-> s.owner, amount |-> amount]>>
              ELSE <<[player |-> g.ports[s.srcPort].owner, amount |-> amount],
                     [player |-> g.ports[s.dstPort].owner, amount |-> amount]>>,
            <<"completed">>)

moveShipCountsPending(g, s, result) ==
  LET curTile == s.tile
      dst == g.ports[s.dstPort].tile
  IN IF curTile = dst THEN complete(g, s)
     ELSE CASE result = "Pending" ->
                 ticked([s EXCEPT !.tilesTraveled = @ + 1], <<>>, <<"pending">>)
            [] result = "NextTile" ->
                 ticked([s EXCEPT !.tile = nextTile(curTile, dst),
                                  !.tilesTraveled = @ + 1], <<>>, <<"moved">>)
            [] result = "Completed" -> complete(g, s)
            [] result = "PathNotFound" -> ticked(deleteShip(s), <<>>, <<"pathNotFound">>)

\* the end of tick: arrival at the destination tile, or one step of the path
moveShip(g, s, result) ==
  LET curTile == s.tile
      dst == g.ports[s.dstPort].tile
  IN IF curTile = dst THEN complete(g, s)
     ELSE CASE result = "Pending" -> ticked(s, <<>>, <<"pending">>)
            [] result = "NextTile" ->
                 ticked([s EXCEPT !.tile = nextTile(curTile, dst),
                                  !.tilesTraveled = @ + 1], <<>>, <<"moved">>)
            [] result = "Completed" -> complete(g, s)
            [] result = "PathNotFound" -> ticked(deleteShip(s), <<>>, <<"pathNotFound">>)

needsRedirect(g, s) ==
  /\ s.wasCaptured
  /\ \/ s.owner # g.ports[s.dstPort].owner
     \/ ~g.ports[s.dstPort].active

redirectKeepsTarget(g, s, port, result) ==
  IF needsRedirect(g, s)
    THEN IF units(g, s.owner) = {}
           THEN ticked(deleteShip(s), <<>>, <<"noPorts">>)
           ELSE LET r == moveShip(g, [s EXCEPT !.dstPort = port], result)
                IN [r EXCEPT !.outcome = <<"redirected">> \o @]
    ELSE moveShip(g, s, result)

\* a captured ship whose trade is no longer valid goes to the first of its
\* owner's ports, sorted by distance
redirect(g, s, port, result) ==
  IF needsRedirect(g, s)
    THEN IF units(g, s.owner) = {}
           THEN ticked(deleteShip(s), <<>>, <<"noPorts">>)
           ELSE LET r == moveShip(g, [s EXCEPT !.dstPort = port,
                                               !.targetUnit = port], result)
                IN [r EXCEPT !.outcome = <<"redirected">> \o @]
    ELSE moveShip(g, s, result)

validateIgnoresTrade(g, s, port, result) ==
  LET dstPortOwner == g.ports[s.dstPort].owner
  IN IF dstPortOwner = g.ports[s.srcPort].owner
       THEN ticked(deleteShip(s), <<>>, <<"sameOwner">>)
       ELSE IF ~s.wasCaptured /\ ~g.ports[s.dstPort].active
         THEN ticked(deleteShip(s), <<>>, <<"tradeEnded">>)
         ELSE redirect(g, s, port, result)

\* the checks of the trade: both ports of one owner, or an uncaptured ship
\* whose destination is gone or closed to its owner
validate(g, s, port, result) ==
  LET dstPortOwner == g.ports[s.dstPort].owner
  IN IF dstPortOwner = g.ports[s.srcPort].owner
       THEN ticked(deleteShip(s), <<>>, <<"sameOwner">>)
       ELSE IF /\ ~s.wasCaptured
               /\ \/ ~g.ports[s.dstPort].active
                  \/ ~canTrade(g, s.owner, dstPortOwner)
         THEN ticked(deleteShip(s), <<>>, <<"tradeEnded">>)
         ELSE redirect(g, s, port, result)

\* a flag that follows the present owner of the ship
markCapturedWhileForeign(s) == [s EXCEPT !.wasCaptured = s.origOwner # s.owner]

\* the ownership check of tick: wasCaptured is set, never cleared
markCaptured(s) == [s EXCEPT !.wasCaptured = @ \/ s.origOwner # s.owner]

\* a tick that goes on with a ship that is no longer active
shipTickIgnoresInactive(g, s, spawn, port, result) ==
  IF ~s.built /\ spawn = Null
    THEN ticked([s EXCEPT !.active = FALSE], <<>>, <<"cannotBuild">>)
    ELSE LET b == IF s.built THEN s
                  ELSE [s EXCEPT !.built = TRUE, !.unitActive = TRUE,
                                 !.owner = s.origOwner, !.tile = spawn,
                                 !.targetUnit = s.dstPort]
         IN validate(g, markCaptured(b), port, result)

\* TradeShipExecution.tick: spawn is the result of canBuild, port the first
\* port of the sorted list when there is one, result what the path finder
\* returns
shipTick(g, s, spawn, port, result) ==
  IF ~s.built /\ spawn = Null
    THEN ticked([s EXCEPT !.active = FALSE], <<>>, <<"cannotBuild">>)
    ELSE LET b == IF s.built THEN s
                  ELSE [s EXCEPT !.built = TRUE, !.unitActive = TRUE,
                                 !.owner = s.origOwner, !.tile = spawn,
                                 !.targetUnit = s.dstPort]
         IN IF ~b.unitActive
              THEN ticked([b EXCEPT !.active = FALSE], <<>>, <<"shipInactive">>)
              ELSE validate(g, markCaptured(b), port, result)

\* the first port of the sorted list a tick would use, Null when it sorts none
FirstPorts(g, s) ==
  LET b == markCaptured(s)
  IN IF s.built /\ needsRedirect(g, b) /\ units(g, b.owner) # {}
       THEN sortedFirst(g, b)
       ELSE {Null}

Tick ==
  /\ game.agent = "ship"
  /\ scheduled(ship)
  /\ \E spawn \in {Null, game.ports[ship.srcPort].tile}, result \in PathResults :
       \E port \in FirstPorts(game, ship) :
         /\ result = "NextTile" => ship.tilesTraveled < MaxTravel
         /\ LET t == shipTick(game, ship, spawn, port, result)
            IN /\ ship' = t.ship
               /\ gold' = payAll(gold, t.calls, 1)
               /\ stopLog' = IF t.outcome \in {<<"pending">>, <<"moved">>} THEN stopLog
                             ELSE Append(stopLog, t.outcome)
  /\ UNCHANGED <<railVars, astarVars, exec, lastStop, game, train>>

\* another player captures the ship; the execution sees it on its next tick
CaptureShip ==
  /\ game.agent = "ship"
  /\ ship.active /\ ship.built /\ ship.unitActive
  /\ game.events < MaxEvents
  /\ ship.wasCaptured \/ ship.owner = ship.origOwner
  /\ \E player \in Players \ {ship.owner} :
       ship' = [ship EXCEPT !.owner = player]
  /\ game' = [game EXCEPT !.events = @ + 1]
  /\ UNCHANGED <<railVars, astarVars, exec, gold, lastStop, stopLog, train>>

\* the ship is destroyed
DestroyShip ==
  /\ game.agent = "ship"
  /\ ship.active /\ ship.built /\ ship.unitActive
  /\ game.events < MaxEvents
  /\ ship' = [ship EXCEPT !.unitActive = FALSE]
  /\ game' = [game EXCEPT !.events = @ + 1]
  /\ UNCHANGED <<railVars, astarVars, exec, gold, lastStop, stopLog, train>>

\* a port is destroyed
DeletePort ==
  /\ game.agent = "ship"
  /\ ship.active
  /\ game.events < MaxEvents
  /\ \E p \in Ports :
       /\ game.ports[p].active
       /\ game' = [game EXCEPT !.ports[p].active = FALSE, !.events = @ + 1]
  /\ UNCHANGED <<railVars, astarVars, exec, gold, lastStop, stopLog, train, ship>>

\* a port is captured with the land it stands on
CapturePort ==
  /\ game.agent = "ship"
  /\ ship.active
  /\ game.events < MaxEvents
  /\ \E p \in Ports, player \in Players :
       /\ game.ports[p].active
       /\ player # game.ports[p].owner
       /\ game' = [game EXCEPT !.ports[p].owner = player, !.events = @ + 1]
  /\ UNCHANGED <<railVars, astarVars, exec, gold, lastStop, stopLog, train, ship>>

\* two players stop trading with each other
Embargo ==
  /\ game.agent = "ship"
  /\ ship.active
  /\ game.events < MaxEvents
  /\ \E player \in Players, other \in Players :
       /\ player # other
       /\ {player, other} \notin game.embargo
       /\ game' = [game EXCEPT !.embargo = @ \cup {{player, other}},
                               !.events = @ + 1]
  /\ UNCHANGED <<railVars, astarVars, exec, gold, lastStop, stopLog, train, ship>>

\* ---------------------------------------------------------------------
\* TrainExecution
\* ---------------------------------------------------------------------

\* the station units of the game, in the order of the longest route
StationIds == 1..4

StationType == <<"Factory", "City", "Port", "Factory">>

\* owner of each station unit; the train belongs to the owner of station 1
StationOwners == {<<1, 1, 2, 3>>, <<1, 2, 3, 1>>}

\* what findStationsPath(source, destination) can return: the empty path, the
\* source alone, or the stations from the source to the destination
Routes == {<<>>, <<1>>, <<1, 2>>, <<1, 2, 3>>, <<1, 2, 3, 4>>}

\* number of tiles of the railroad from station i to station i + 1 (0: there
\* is no such railroad); stations are at least trainStationMinRange apart
RailLengths == {<<15, 16, 15>>, <<16, 15, 16>>, <<16, 0, 15>>, <<0, 15, 16>>}

\* the sets of players that are friendly to each other
Friendships == {{}, {{1, 2}}, {{1}, {1, 2}, {1, 3}}}

\* the pairs of players that do not trade when the train is sent
Embargoes == {{}, {{1, 3}}}

isFriendly(g, player, other) == {player, other} \in g.friendly

\* TrainStation.tradeAvailable
tradeAvailable(g, station, otherPlayer) ==
  LET player == g.units[station].owner
  IN otherPlayer = player \/ canTrade(g, player, otherPlayer)

stationTile(station) == 100 * station

\* the railroad from one station to the other, or <<>> when there is none
getOrientedRailroad(g, from, to) ==
  IF to = from + 1 /\ g.rails[from] > 0 THEN <<from, to>> ELSE <<>>

\* OrientedRailroad.getTiles
getTiles(g, railroad) ==
  [i \in 1..g.rails[railroad[1]] |-> stationTile(railroad[1]) + i]

NewUnit(tile, trainType, loaded) ==
  [active |-> TRUE, reached |-> FALSE, loaded |-> loaded, tile |-> tile,
   trainType |-> trainType]

NewTrainExecution(player, source, destination, n) ==
  [active |-> TRUE, mg |-> FALSE, train |-> <<>>, cars |-> <<>>,
   hasCargo |-> FALSE, currentTile |-> 0, usedTiles |-> <<>>,
   stations |-> <<>>, currentRailroad |-> <<>>, player |-> player,
   source |-> source, destination |-> destination, numCars |-> n]

createTrainUnitsAgain(t, tile) ==
  [t EXCEPT !.train = <<NewUnit(tile, "Engine", FALSE)>>,
            !.cars = @ \o <<NewUnit(tile, "Engine", FALSE)>> \o
                     [i \in 1..t.numCars |-> NewUnit(tile, "Carriage", t.hasCargo)]
                     \o <<NewUnit(tile, "Carriage", t.hasCargo)>>]

\* the engine, then the tail engine and numCars carriages
createTrainUnits(t, tile) ==
  [t EXCEPT !.train = <<NewUnit(tile, "Engine", FALSE)>>,
            !.cars = @ \o <<NewUnit(tile, "Engine", FALSE)>> \o
                     [i \in 1..t.numCars |-> NewUnit(tile, "Carriage", t.hasCargo)]]

trainInitBuildsFirst(g, t, path, spawn) ==
  LET m == [t EXCEPT !.mg = TRUE]
      built == IF spawn = Null THEN m ELSE createTrainUnits(m, spawn)
  IN IF Len(path) <= 1
       THEN [built EXCEPT !.active = FALSE]
       ELSE LET s == [built EXCEPT !.stations = path]
                railroad == getOrientedRailroad(g, path[1], path[2])
            IN IF railroad = <<>> \/ spawn = Null
                 THEN [s EXCEPT !.active = FALSE]
                 ELSE [s EXCEPT !.currentRailroad = railroad]

\* TrainExecution.init: path is the result of findStationsPath and spawn the
\* result of canBuild
trainInit(g, t, path, spawn) ==
  LET m == [t EXCEPT !.mg = TRUE]
  IN IF Len(path) <= 1
       THEN [m EXCEPT !.active = FALSE]
       ELSE LET s == [m EXCEPT !.stations = path]
                railroad == getOrientedRailroad(g, path[1], path[2])
            IN IF railroad = <<>>
                 THEN [s EXCEPT !.active = FALSE]
                 ELSE IF spawn = Null
                   THEN [s EXCEPT !.currentRailroad = railroad, !.active = FALSE]
                   ELSE createTrainUnits([s EXCEPT !.currentRailroad = railroad], spawn)

deleteUnit(unit) == [unit EXCEPT !.active = FALSE]

deleteTrainKeepsCars(t) ==
  [t EXCEPT !.active = FALSE,
            !.train = [i \in 1..Len(@) |-> deleteUnit(@[i])]]

deleteTrain(t) ==
  [t EXCEPT !.active = FALSE,
            !.train = [i \in 1..Len(@) |-> deleteUnit(@[i])],
            !.cars = [i \in 1..Len(@) |-> deleteUnit(@[i])]]

targetReached(t) ==
  IF t.train = <<>> THEN t
  ELSE [t EXCEPT !.train = [i \in 1..Len(@) |-> [@[i] EXCEPT !.reached = TRUE]],
                 !.cars = [i \in 1..Len(@) |-> [@[i] EXCEPT !.reached = TRUE]]]

activeSourceOrDestination(g, t) ==
  /\ Len(t.stations) > 1
  /\ g.units[t.stations[2]].active
  /\ g.units[t.stations[1]].active

saveTile(t, tile) ==
  LET pushed == Append(t.usedTiles, tile)
  IN [t EXCEPT !.usedTiles = IF Len(pushed) > Len(t.cars) * spacing + 3
                               THEN Tail(pushed) ELSE pushed]

RECURSIVE saveLoop(_, _, _, _, _)
saveLoop(g, t, tileToSave, i, n) ==
  IF i < n /\ tileToSave < Len(getTiles(g, t.currentRailroad))
    THEN saveLoop(g, saveTile(t, getTiles(g, t.currentRailroad)[tileToSave + 1]),
                  tileToSave + 1, i + 1, n)
    ELSE t

saveTraversedTiles(g, t, from, n) ==
  IF t.currentRailroad = <<>> THEN t ELSE saveLoop(g, t, from, 0, n)

updateCarsPositions(t, newTile) ==
  [t EXCEPT !.cars = [i \in 1..Len(@) |->
                        LET carTileIndex == i * spacing + 2
                        IN IF Len(t.usedTiles) > carTileIndex
                             THEN [@[i] EXCEPT !.tile = t.usedTiles[carTileIndex + 1]]
                             ELSE @[i]],
            !.train = [i \in 1..Len(@) |-> [@[i] EXCEPT !.tile = newTile]]]

\* a nextStation that takes the next railroad and keeps the route as it is
nextStationKeepsRoute(g, t) ==
  IF Len(t.stations) > 2
    THEN LET railRoad == getOrientedRailroad(g, t.stations[2], t.stations[3])
         IN IF railRoad # <<>>
              THEN [train |-> [t EXCEPT !.currentRailroad = railRoad], found |-> TRUE]
              ELSE [train |-> t, found |-> FALSE]
    ELSE [train |-> t, found |-> FALSE]

\* the execution after nextStation and what nextStation returns
nextStation(g, t) ==
  IF Len(t.stations) > 2
    THEN LET shifted == [t EXCEPT !.stations = Tail(@)]
             railRoad == getOrientedRailroad(g, shifted.stations[1], shifted.stations[2])
         IN IF railRoad # <<>>
              THEN [train |-> [shifted EXCEPT !.currentRailroad = railRoad], found |-> TRUE]
              ELSE [train |-> shifted, found |-> FALSE]
    ELSE [train |-> t, found |-> FALSE]

\* a check that lets the train go on to a station it cannot trade with
canTradeWithDestinationAlways(g, t) == Len(t.stations) > 1

canTradeWithDestination(g, t) ==
  /\ Len(t.stations) > 1
  /\ tradeAvailable(g, t.stations[2], t.player)

\* the tile read from the railroad at an index: Null past its end
tileAt(g, t) ==
  IF t.currentTile < Len(getTiles(g, t.currentRailroad))
    THEN getTiles(g, t.currentRailroad)[t.currentTile + 1]
    ELSE Null

\* what getNextTile leaves behind: the execution, the tile it returns (Null
\* for none) and the stations whose onTrainStop it called
moved(t, tile, stops) == [train |-> t, tile |-> tile, stops |-> stops]

getNextTileStopsAtDeparture(g, t) ==
  IF t.currentRailroad = <<>> \/ ~canTradeWithDestination(g, t)
    THEN moved(t, Null, <<>>)
    ELSE LET saved == saveTraversedTiles(g, t, t.currentTile, speed)
             advanced == [saved EXCEPT !.currentTile = @ + speed]
             leftOver == advanced.currentTile - Len(getTiles(g, advanced.currentRailroad))
         IN IF leftOver >= 0
              THEN LET reached == advanced.stations[1]
                       next == nextStation(g, advanced)
                   IN IF ~next.found
                        THEN moved(next.train, Null, <<reached>>)
                        ELSE LET resumed == saveTraversedTiles(g,
                                              [next.train EXCEPT !.currentTile = leftOver],
                                              0, leftOver)
                             IN moved(resumed, tileAt(g, resumed), <<reached>>)
              ELSE moved(advanced, tileAt(g, advanced), <<>>)

getNextTile(g, t) ==
  IF t.currentRailroad = <<>> \/ ~canTradeWithDestination(g, t)
    THEN moved(t, Null, <<>>)
    ELSE the({
      LET leftOver == advanced.currentTile - Len(getTiles(g, advanced.currentRailroad))
      IN IF leftOver >= 0
           THEN the({
             IF ~next.found
               THEN moved(next.train, Null, <<advanced.stations[2]>>)
               ELSE the({moved(resumed, tileAt(g, resumed), <<advanced.stations[2]>>) :
                         resumed \in {saveTraversedTiles(g,
                                        [next.train EXCEPT !.currentTile = leftOver],
                                        0, leftOver)}}) :
             next \in {nextStation(g, advanced)}})
           ELSE moved(advanced, tileAt(g, advanced), <<>>) :
      advanced \in {[saved EXCEPT !.currentTile = @ + speed] :
                    saved \in {saveTraversedTiles(g, t, t.currentTile, speed)}}})

trainTickSkipsCheck(g, t) ==
  LET next == getNextTile(g, t)
  IN IF next.tile # Null
       THEN moved(updateCarsPositions(next.train, next.tile), next.tile, next.stops)
       ELSE moved(deleteTrain(targetReached(next.train)), Null, next.stops)

\* TrainExecution.tick
trainTick(g, t) ==
  IF t.train = <<>> THEN moved(t, Null, <<>>)
  ELSE IF ~t.train[1].active \/ ~activeSourceOrDestination(g, t)
    THEN moved(deleteTrain(t), Null, <<>>)
    ELSE the({
      IF next.tile # Null
        THEN moved(updateCarsPositions(next.train, next.tile), next.tile, next.stops)
        ELSE moved(deleteTrain(targetReached(next.train)), Null, next.stops) :
      next \in {getNextTile(g, t)}})

\* station.onTrainStop(trainExecution) of a station unit of the game
stopAt(g, t, station) ==
  Stop(g.units[station].type, g.units[station].level, g.units[station].owner,
       t.player, isFriendly(g, g.units[station].owner, t.player))

RECURSIVE stopCalls(_, _, _, _)
stopCalls(g, t, stops, i) ==
  IF i > Len(stops) THEN <<>>
  ELSE stopAt(g, t, stops[i]).calls \o stopCalls(g, t, stops, i + 1)

TrainInit ==
  /\ game.agent = "train"
  /\ ~train.mg
  /\ \E spawn \in {Null, stationTile(train.source)} :
       train' = trainInit(game, train, game.route, spawn)
  /\ UNCHANGED <<railVars, astarVars, exec, gold, lastStop, stopLog, game, ship>>

TrainTick ==
  /\ game.agent = "train"
  /\ train.mg
  /\ scheduled(train)
  /\ LET t == trainTick(game, train)
     IN /\ train' = t.train
        /\ gold' = payAll(gold, stopCalls(game, train, t.stops, 1), 1)
        /\ stopLog' = stopLog \o t.stops
        /\ lastStop' = IF t.stops = <<>> THEN lastStop
                       ELSE stopAt(game, train, t.stops[Len(t.stops)])
  /\ UNCHANGED <<railVars, astarVars, exec, game, ship>>

\* a station unit is destroyed
DeleteStationUnit ==
  /\ game.agent = "train"
  /\ train.mg /\ train.active
  /\ game.events < MaxEvents
  /\ \E station \in StationIds :
       /\ game.units[station].active
       /\ game' = [game EXCEPT !.units[station].active = FALSE, !.events = @ + 1]
  /\ UNCHANGED <<railVars, astarVars, exec, gold, lastStop, stopLog, train, ship>>

\* the engine is destroyed
DeleteEngine ==
  /\ game.agent = "train"
  /\ train.mg /\ train.active
  /\ game.events < MaxEvents
  /\ train.train[1].active
  /\ train' = [train EXCEPT !.train[1].active = FALSE]
  /\ game' = [game EXCEPT !.engineLost = TRUE, !.events = @ + 1]
  /\ UNCHANGED <<railVars, astarVars, exec, gold, lastStop, stopLog, ship>>

\* the tail engine or the last carriage is destroyed
DeleteCar ==
  /\ game.agent = "train"
  /\ train.mg /\ train.active
  /\ game.events < MaxEvents
  /\ \E i \in {1, Len(train.cars)} :
       /\ train.cars[i].active
       /\ train' = [train EXCEPT !.cars[i].active = FALSE]
  /\ game' = [game EXCEPT !.events = @ + 1]
  /\ UNCHANGED <<railVars, astarVars, exec, gold, lastStop, stopLog, ship>>

\* TrainExecution.loadCargo: cars[0] of the code, the tail engine, is cars[1]
loadCargo(t) ==
  IF t.hasCargo \/ t.train = <<>> THEN t
  ELSE [t EXCEPT !.hasCargo = TRUE,
                 !.cars = [i \in 1..Len(@) |->
                             IF i > 1 THEN [@[i] EXCEPT !.loaded = TRUE] ELSE @[i]]]

\* a caller of the public method loadCargo; no method of src calls it
LoadCargo ==
  /\ game.agent = "train"
  /\ train.mg /\ train.active
  /\ train' = loadCargo(train)
  /\ UNCHANGED <<railVars, astarVars, exec, gold, lastStop, stopLog, game, ship>>

\* the train's owner and another player stop trading with each other
StopTrade ==
  /\ game.agent = "train"
  /\ train.mg /\ train.active
  /\ game.events < MaxEvents
  /\ \E other \in Players \ {train.player} :
       /\ {train.player, other} \notin game.embargo
       /\ game' = [game EXCEPT !.embargo = @ \cup {{train.player, other}},
                               !.events = @ + 1]
  /\ UNCHANGED <<railVars, astarVars, exec, gold, lastStop, stopLog, train, ship>>

\* ---------------------------------------------------------------------
\* PlayerExecution
\* ---------------------------------------------------------------------

\* names of the player, as character codes
PlayerNames == {<<100>>, <<122, 122>>}

\* the game tick at which the execution is initialized
InitTicks == {0, 290}

BombTypes == {"AtomBomb", "HydrogenBomb", "MIRVWarhead", "MIRV"}

\* the units of player 1 and the owner of the tile each stands on (0: nobody)
PlayerUnits ==
  <<[type |-> "City", territoryBound |-> TRUE, tileOwner |-> 1, owner |-> 1, active |-> TRUE],
    [type |-> "Port", territoryBound |-> TRUE, tileOwner |-> 1, owner |-> 1, active |-> TRUE],
    [type |-> "TradeShip", territoryBound |-> FALSE, tileOwner |-> 0, owner |-> 1, active |-> TRUE],
    [type |-> "AtomBomb", territoryBound |-> FALSE, tileOwner |-> 2, owner |-> 1, active |-> TRUE],
    [type |-> "HydrogenBomb", territoryBound |-> FALSE, tileOwner |-> 0, owner |-> 1, active |-> TRUE],
    [type |-> "MIRVWarhead", territoryBound |-> FALSE, tileOwner |-> 0, owner |-> 1, active |-> TRUE],
    [type |-> "MIRV", territoryBound |-> FALSE, tileOwner |-> 1, owner |-> 1, active |-> TRUE]>>

\* the alliances and the embargoes of player 1
PlayerAlliances ==
  <<[other |-> 2, expiresAt |-> 312, expired |-> FALSE],
    [other |-> 3, expiresAt |-> 5, expired |-> FALSE]>>

PlayerEmbargoes ==
  <<[target |-> 2, isTemporary |-> TRUE, createdAt |-> 11, stopped |-> FALSE],
    [target |-> 3, isTemporary |-> FALSE, createdAt |-> 0, stopped |-> FALSE]>>

RECURSIVE hashLoop(_, _, _)
\* hash = ((hash << 5) - hash) + char, for names short enough to stay
\* within 32 bits
hashLoop(str, i, hash) ==
  IF i > Len(str) THEN hash
  ELSE hashLoop(str, i + 1, ((hash * 32) - hash) + str[i])

simpleHash(str) == Abs(hashLoop(str, 1, 0))

NewPlayerExecution(player, name) ==
  [class |-> "Player", active |-> TRUE, mg |-> FALSE, lastCalc |-> 0,
   player |-> player, name |-> name]

playerInit(e, ticks) ==
  [e EXCEPT !.mg = TRUE,
            !.lastCalc = ticks + (simpleHash(e.name) % ticksPerClusterCalc)]

\* what a tick has done so far: the game, the execution, the players' gold
\* and the calls it made, in order
effect(g, e, gd, log) == [game |-> g, exec |-> e, gold |-> gd, log |-> log]

RECURSIVE validateUnits(_, _, _)
\* territory-bound unit validation, unit by unit
validateUnits(st, player, i) ==
  IF i > Len(st.game.units) THEN st
  ELSE LET u == st.game.units[i]
       IN IF u.owner = player /\ u.active /\ u.territoryBound
            THEN IF u.tileOwner # 0
                   THEN IF u.tileOwner # player
                          THEN validateUnits(
                                 [st EXCEPT !.game.units[i].owner = u.tileOwner,
                                            !.log = Append(@, <<"captureUnit", i>>)],
                                 player, i + 1)
                          ELSE validateUnits(st, player, i + 1)
                   ELSE validateUnits(
                          [st EXCEPT !.game.units[i].active = FALSE,
                                     !.log = Append(@, <<"deleteUnit", i>>)],
                          player, i + 1)
            ELSE validateUnits(st, player, i + 1)

RECURSIVE deleteUnits(_, _, _)
\* the units an eliminated player loses
deleteUnits(st, player, i) ==
  IF i > Len(st.game.units) THEN st
  ELSE LET u == st.game.units[i]
       IN IF u.owner = player /\ u.active /\ u.type \notin BombTypes
            THEN deleteUnits([st EXCEPT !.game.units[i].active = FALSE,
                                        !.log = Append(@, <<"deleteUnit", i>>)],
                             player, i + 1)
            ELSE deleteUnits(st, player, i + 1)

eliminateKeepsGold(st, player) ==
  [deleteUnits(st, player, 1) EXCEPT !.exec.active = FALSE]

eliminate(st, player) ==
  LET amount == st.gold[player]
      paid == [st EXCEPT !.gold[player] = @ - amount,
                         !.log = Append(@, <<"removeGold", amount>>)]
      deleted == deleteUnits(paid, player, 1)
  IN [deleted EXCEPT !.exec.active = FALSE]

\* troop and gold generation
workers(st, player) ==
  [st EXCEPT !.game.growth = @ + 1,
             !.gold[player] = @ + goldAdditionRate,
             !.log = @ \o <<<<"addTroops", 0>>, <<"addGold", goldAdditionRate>>>>]

RECURSIVE expireAlliances(_, _, _)
expireAlliances(st, ticks, i) ==
  IF i > Len(st.game.alliances) THEN st
  ELSE LET a == st.game.alliances[i]
       IN IF ~a.expired /\ a.expiresAt <= ticks
            THEN expireAlliances([st EXCEPT !.game.alliances[i].expired = TRUE,
                                            !.log = Append(@, <<"expire", i>>)],
                                 ticks, i + 1)
            ELSE expireAlliances(st, ticks, i + 1)

RECURSIVE stopEmbargoes(_, _, _)
stopEmbargoes(st, ticks, i) ==
  IF i > Len(st.game.embargoes) THEN st
  ELSE LET b == st.game.embargoes[i]
       IN IF ~b.stopped /\ b.isTemporary
             /\ ticks - b.createdAt > temporaryEmbargoDuration
            THEN stopEmbargoes([st EXCEPT !.game.embargoes[i].stopped = TRUE,
                                          !.log = Append(@, <<"stopEmbargo", i>>)],
                               ticks, i + 1)
            ELSE stopEmbargoes(st, ticks, i + 1)

clusterCalcEveryTick(st, ticks) ==
  IF st.game.lastTileChange > st.exec.lastCalc
    THEN [st EXCEPT !.exec.lastCalc = ticks,
                    !.game.calcs = Append(@, ticks),
                    !.log = Append(@, <<"removeClusters", ticks>>)]
    ELSE st

\* the territory-cluster recompute, at most once in ticksPerClusterCalc ticks
clusterCalc(st, ticks) ==
  IF ticks - st.exec.lastCalc > ticksPerClusterCalc
    THEN IF st.game.lastTileChange > st.exec.lastCalc
           THEN [st EXCEPT !.exec.lastCalc = ticks,
                           !.game.calcs = Append(@, ticks),
                           !.log = Append(@, <<"removeClusters", ticks>>)]
           ELSE st
    ELSE st

\* PlayerExecution.tick
playerTickGoldFirst(g, e, gd, ticks) ==
  LET player == e.player
      paid == workers(effect(g, e, gd, <<>>), player)
      decayed == [paid EXCEPT !.log = Append(@, <<"decayRelations", 0>>)]
      validated == validateUnits(decayed, player, 1)
      checked == [validated EXCEPT !.log = Append(@, <<"isAlive", IF g.alive THEN 1 ELSE 0>>)]
  IN IF ~g.alive
       THEN eliminate(checked, player)
       ELSE clusterCalc(stopEmbargoes(expireAlliances(checked, ticks, 1), ticks, 1), ticks)

playerTick(g, e, gd, ticks) ==
  LET player == e.player
      decayed == effect(g, e, gd, <<<<"decayRelations", 0>>>>)
      validated == validateUnits(decayed, player, 1)
      checked == [validated EXCEPT !.log = Append(@, <<"isAlive", IF g.alive THEN 1 ELSE 0>>)]
  IN IF ~g.alive
       THEN eliminate(checked, player)
       ELSE clusterCalc(stopEmbargoes(expireAlliances(workers(checked, player),
                                                      ticks, 1), ticks, 1), ticks)

PlayerInit ==
  /\ game.agent = "player"
  /\ ~exec.mg
  /\ exec' = playerInit(exec, game.ticks)
  /\ UNCHANGED <<railVars, astarVars, gold, lastStop, stopLog, game, train, ship>>

\* one game tick: the execution's tick, then the game's tick counter
PlayerTick ==
  /\ game.agent = "player"
  /\ exec.mg
  /\ scheduled(exec)
  /\ game.ticks < game.start + MaxTicks
  /\ LET st == playerTick(game, exec, gold, game.ticks)
     IN /\ game' = [st.game EXCEPT !.ticks = @ + 1]
        /\ exec' = st.exec
        /\ gold' = st.gold
        /\ stopLog' = st.log
  /\ UNCHANGED <<railVars, astarVars, lastStop, train, ship>>

\* a tile of the player changes hands, before or after the execution's tick
\* of a game tick
TileChange ==
  /\ game.agent = "player"
  /\ exec.mg /\ exec.active
  /\ game.events < MaxEvents
  /\ \E at \in {game.ticks - 1, game.ticks} :
       /\ at > game.lastTileChange
       /\ game' = [game EXCEPT !.lastTileChange = at, !.events = @ + 1]
  /\ UNCHANGED <<railVars, astarVars, gold, lastStop, stopLog, train, ship, exec>>

\* the tile under a unit is taken by another player, or left to nobody
ConquerTile ==
  /\ game.agent = "player"
  /\ exec.mg /\ exec.active
  /\ game.events < MaxEvents
  /\ \E i \in 1..Len(game.units), other \in {0, 2} :
       /\ game.units[i].active
       /\ game.units[i].territoryBound
       /\ game.units[i].owner = exec.player
       /\ game.units[i].tileOwner = exec.player
       /\ game' = [game EXCEPT !.units[i].tileOwner = other,
                                !.lastTileChange = game.ticks, !.events = @ + 1]
  /\ UNCHANGED <<railVars, astarVars, gold, lastStop, stopLog, train, ship, exec>>

\* the player loses its last tile
PlayerDies ==
  /\ game.agent = "player"
  /\ exec.mg /\ exec.active
  /\ game.alive
  /\ game.events < MaxEvents
  /\ game' = [game EXCEPT !.alive = FALSE, !.lastTileChange = game.ticks,
                           !.events = @ + 1]
  /\ UNCHANGED <<railVars, astarVars, gold, lastStop, stopLog, train, ship, exec>>

\* ---------------------------------------------------------------------
\* FactoryExecution, PortExecution, CityExecution
\* ---------------------------------------------------------------------

StructureClasses == {"Factory", "Port", "City"}

\* the units within trainStationMaxRange of the tile the execution builds
\* on, the built unit (0) among them, and those that already have a station
NearbyUnits == {<<0>>, <<0, 2, 3>>}

\* the results of Player.tradingPorts
TradingPorts == {{}, {2}, {2, 3}}

NewStructureExecution(class, player, tile) ==
  [class |-> class, active |-> TRUE, mg |-> FALSE, player |-> player,
   tile |-> tile, built |-> FALSE, unitActive |-> FALSE, unitOwner |-> Null,
   checkOffset |-> Null]

structureInit(e, ticks) ==
  [e EXCEPT !.mg = TRUE,
            !.checkOffset = IF e.class = "Port" THEN ticks % 10 ELSE @]

\* addExecution(new TrainStationExecution(unit, spawnTrains)): the
\* constructor marks the unit as having a train station
addStationExecution(st, unit, spawnTrains) ==
  [st EXCEPT !.game.added = Append(@, [class |-> "TrainStation", unit |-> unit,
                                       spawnTrains |-> spawnTrains, dst |-> Null]),
             !.game.stationed = @ \cup {unit},
             !.log = Append(@, <<"addExecution", unit>>)]

RECURSIVE nearbyStations(_, _)
\* stations for the nearby structures that have none
nearbyStations(st, i) ==
  IF i > Len(st.game.nearby) THEN st
  ELSE LET unit == st.game.nearby[i]
       IN IF unit \notin st.game.stationed
            THEN nearbyStations(addStationExecution(st, unit, FALSE), i + 1)
            ELSE nearbyStations(st, i + 1)

\* createStation of the three classes
createStation(st) ==
  IF st.exec.class = "Factory"
    THEN nearbyStations(addStationExecution(st, 0, TRUE), 1)
    ELSE IF st.game.nearbyFactory THEN addStationExecution(st, 0, FALSE) ELSE st

buildRetries(st, spawn) ==
  IF spawn = Null
    THEN [st EXCEPT !.log = Append(@, <<"canBuild", 0>>)]
    ELSE createStation(
           [st EXCEPT !.exec.built = TRUE, !.exec.unitActive = TRUE,
                      !.exec.unitOwner = st.exec.player,
                      !.log = @ \o <<<<"canBuild", 1>>, <<"buildUnit", 0>>>>])

\* the first part of a tick, while no unit is built: spawn is the result of
\* canBuild
build(st, spawn) ==
  IF spawn = Null
    THEN [st EXCEPT !.exec.active = FALSE, !.log = Append(@, <<"canBuild", 0>>)]
    ELSE createStation(
           [st EXCEPT !.exec.built = TRUE, !.exec.unitActive = TRUE,
                      !.exec.unitOwner = st.exec.player,
                      !.log = @ \o <<<<"canBuild", 1>>, <<"buildUnit", 0>>>>])

\* shouldSpawnTradeShip: level chances, each of them an input
shouldSpawnTradeShip(level, chance) == level > 0 /\ chance

\* the end of PortExecution.tick
spawnTradeShip(st, level, chance, ports, port) ==
  IF (st.game.ticks + st.exec.checkOffset) % 10 # 0 THEN st
  ELSE IF ~shouldSpawnTradeShip(level, chance) THEN st
  ELSE IF ports = {} THEN st
  ELSE [st EXCEPT !.game.added = Append(@, [class |-> "TradeShip", unit |-> 0,
                                            spawnTrains |-> FALSE, dst |-> port]),
                  !.log = Append(@, <<"addExecution", port>>)]

\* FactoryExecution.tick, PortExecution.tick, CityExecution.tick
structureTick(g, e, log, spawn, level, chance, ports, port) ==
  LET st == [game |-> g, exec |-> e, log |-> log]
      b == IF e.built THEN st ELSE build(st, spawn)
  IN IF ~b.exec.built THEN b
     ELSE IF ~b.exec.unitActive THEN [b EXCEPT !.exec.active = FALSE]
     ELSE LET o == [b EXCEPT !.exec.player = b.exec.unitOwner]
          IN IF e.class = "Port" THEN spawnTradeShip(o, level, chance, ports, port)
             ELSE o

StructureInit ==
  /\ game.agent = "structure"
  /\ ~exec.mg
  /\ exec' = structureInit(exec, game.ticks)
  /\ UNCHANGED <<railVars, astarVars, gold, lastStop, stopLog, game, train, ship>>

\* one game tick: the execution's tick, then the game's tick counter
StructureTick ==
  /\ game.agent = "structure"
  /\ exec.mg
  /\ scheduled(exec)
  /\ game.ticks < game.start + MaxSteps
  /\ \E spawn \in {Null, exec.tile}, level \in {0} \cup Levels, chance \in BOOLEAN,
        ports \in TradingPorts :
       \E port \in ports \cup {Null} :
         /\ (port = Null) = (ports = {})
         /\ chance => game.ships < MaxSpawns
         /\ LET st == structureTick(game, exec, stopLog, spawn, level, chance,
                                    ports, port)
            IN /\ game' = [st.game EXCEPT !.ticks = @ + 1,
                                          !.ships = IF Len(st.game.added) > Len(game.added)
                                                       /\ exec.built
                                                      THEN @ + 1 ELSE @]
               /\ exec' = st.exec
               /\ stopLog' = st.log
  /\ UNCHANGED <<railVars, astarVars, gold, lastStop, train, ship>>

\* the built unit is destroyed
DestroyStructure ==
  /\ game.agent = "structure"
  /\ exec.built /\ exec.unitActive
  /\ game.events < MaxEvents
  /\ exec' = [exec EXCEPT !.unitActive = FALSE]
  /\ game' = [game EXCEPT !.events = @ + 1]
  /\ UNCHANGED <<railVars, astarVars, gold, lastStop, stopLog, train, ship>>

\* the built unit is captured by another player
CaptureStructure ==
  /\ game.agent = "structure"
  /\ exec.built /\ exec.unitActive
  /\ game.events < MaxEvents
  /\ \E other \in Players \ {exec.unitOwner} :
       exec' = [exec EXCEPT !.unitOwner = other]
  /\ game' = [game EXCEPT !.events = @ + 1]
  /\ UNCHANGED <<railVars, astarVars, gold, lastStop, stopLog, train, ship>>

\* ---------------------------------------------------------------------
\* TrainStationExecution
\* ---------------------------------------------------------------------

\* the owners of the units of the map
UnitOwners == <<1, 2, 3, 1, 1, 3, 2>>

NewTrainStationExecution(unit, spawnTrains) ==
  [class |-> "TrainStation", active |-> TRUE, mg |-> FALSE, unit |-> unit,
   spawnTrains |-> spawnTrains, station |-> FALSE, lastSpawnTick |-> 0,
   numCars |-> numCars]

\* an availableForTrade that returns every station of the cluster
availableForTradeAll(g, mem, c, player) == mem[c]

\* Cluster.availableForTrade of the cluster c with stations mem[c]
availableForTrade(g, mem, c, player) ==
  {s \in mem[c] : tradeAvailable(g, s, player)}

\* shouldSpawnTrain: level chances, each of them an input
shouldSpawnTrain(level, chance) == level > 0 /\ chance

spawned(e, added) == [exec |-> e, added |-> added]

spawnTrainNoCooldown(g, e, cl, mem, currentTick, chance, destination) ==
  LET c == cl[e.unit]
      owner == g.units[e.unit].owner
  IN IF ~e.spawnTrains THEN spawned(e, g.added)
     ELSE IF c = Null THEN spawned(e, g.added)
     ELSE IF availableForTrade(g, mem, c, owner) = {} THEN spawned(e, g.added)
     ELSE IF ~shouldSpawnTrain(g.units[e.unit].level, chance) THEN spawned(e, g.added)
     ELSE IF destination # e.unit
       THEN spawned([e EXCEPT !.lastSpawnTick = currentTick],
                    Append(g.added, [player |-> owner, source |-> e.unit,
                                     destination |-> destination,
                                     numCars |-> e.numCars, tick |-> currentTick]))
       ELSE spawned(e, g.added)

\* TrainStationExecution.spawnTrain: destination is the result of randFromSet
spawnTrain(g, e, cl, mem, currentTick, chance, destination) ==
  LET c == cl[e.unit]
      owner == g.units[e.unit].owner
  IN IF ~e.spawnTrains THEN spawned(e, g.added)
     ELSE IF currentTick < e.lastSpawnTick + ticksCooldown THEN spawned(e, g.added)
     ELSE IF c = Null THEN spawned(e, g.added)
     ELSE IF availableForTrade(g, mem, c, owner) = {} THEN spawned(e, g.added)
     ELSE IF ~shouldSpawnTrain(g.units[e.unit].level, chance) THEN spawned(e, g.added)
     ELSE IF destination # e.unit
       THEN spawned([e EXCEPT !.lastSpawnTick = currentTick],
                    Append(g.added, [player |-> owner, source |-> e.unit,
                                     destination |-> destination,
                                     numCars |-> e.numCars, tick |-> currentTick]))
       ELSE spawned(e, g.added)

\* the destinations randFromSet can return in a tick
destinations(g, e, cl, mem) ==
  IF cl[e.unit] = Null THEN {Null}
  ELSE LET avail == availableForTrade(g, mem, cl[e.unit], g.units[e.unit].owner)
       IN IF avail = {} THEN {Null} ELSE avail

stationMissingOrSet(e) == e.active

\* the tick constructs and connects the station when it has none
stationMissing(e) == e.active /\ ~e.station

StationInit ==
  /\ game.agent = "station"
  /\ ~exec.mg
  /\ exec' = [exec EXCEPT !.mg = TRUE]
  /\ UNCHANGED <<railVars, astarVars, gold, lastStop, stopLog, game, train, ship>>

\* TrainStationExecution.tick, and then the game's tick counter
StationTick ==
  /\ game.agent = "station"
  /\ exec.mg
  /\ scheduled(exec)
  /\ game.ticks < game.start + MaxSteps
  /\ IF stationMissing(exec)
       THEN \E order \in SortedNeighbors(exec.unit) :
              \E paths \in [(nearbyUnits(exec.unit, trainStationMaxRange)
                               \cap registered) -> PathLens] :
                connectStation(exec.unit, order, paths)
       ELSE UNCHANGED <<registered, railroads, cluster, stations>>
  /\ IF ~exec.active
       THEN exec' = exec /\ game' = [game EXCEPT !.ticks = @ + 1]
       ELSE LET e == [exec EXCEPT !.station = TRUE]
            IN IF ~game.units[e.unit].active
                 THEN /\ exec' = [e EXCEPT !.active = FALSE]
                      /\ game' = [game EXCEPT !.ticks = @ + 1]
                 ELSE \E chance \in BOOLEAN,
                         destination \in destinations(game, e, cluster', stations') :
                        /\ LET s == spawnTrain(game, e, cluster', stations',
                                               game.ticks, chance, destination)
                           IN /\ exec' = s.exec
                              /\ game' = [game EXCEPT !.added = s.added,
                                                      !.ticks = @ + 1]
  /\ UNCHANGED <<reconnected, hasTrainStation, astarVars, gold, lastStop, stopLog, train, ship>>

\* the first tick of the station execution of another unit, one in range of
\* the unit of this execution
NeighbourConnects ==
  /\ game.agent = "station"
  /\ game.events < MaxEvents
  /\ \E u \in nearbyUnits(exec.unit, trainStationMaxRange)
               \ (registered \cup {exec.unit}) :
       \E order \in SortedNeighbors(u) :
         \E paths \in [(nearbyUnits(u, trainStationMaxRange) \cap registered) -> PathLens] :
           /\ ~hasTrainStation[u]
           /\ connectStation(u, order, paths)
           /\ hasTrainStation' = setTrainStation(hasTrainStation, u, TRUE)
  /\ game' = [game EXCEPT !.events = @ + 1]
  /\ UNCHANGED <<reconnected, astarVars, gold, lastStop, stopLog, train, ship, exec>>

\* the station of another unit is removed from the network
NeighbourRemoved ==
  /\ game.agent = "station"
  /\ game.events < MaxEvents
  /\ \E u \in registered \ {exec.unit} : removeStationOf(findStation(registered, u))
  /\ game' = [game EXCEPT !.events = @ + 1]
  /\ UNCHANGED <<reconnected, astarVars, gold, lastStop, stopLog, train, ship, exec>>

\* removeStation for the unit of the execution while its station is alone in
\* its cluster: the cluster is deleted, the execution keeps the station
StationRemoved ==
  /\ game.agent = "station"
  /\ game.events < MaxEvents
  /\ exec.station
  /\ exec.unit \in registered
  /\ stations[cluster[exec.unit]] = {exec.unit}
  /\ removeStationOf(findStation(registered, exec.unit))
  /\ game' = [game EXCEPT !.events = @ + 1]
  /\ UNCHANGED <<reconnected, astarVars, gold, lastStop, stopLog, train, ship, exec>>

\* the unit of the execution is destroyed
DestroyStationUnit ==
  /\ game.agent = "station"
  /\ game.events < MaxEvents
  /\ game.units[exec.unit].active
  /\ game' = [game EXCEPT !.units[exec.unit].active = FALSE, !.events = @ + 1]
  /\ UNCHANGED <<railVars, astarVars, gold, lastStop, stopLog, train, ship, exec>>

\* ---------------------------------------------------------------------
\* EconomicConfig.trainSpawnRate
\* ---------------------------------------------------------------------

trainSpawnCap == 1400

\* the integer part of the square root
floorSqrt(n) == CHOOSE r \in 0..n : r * r <= n /\ n < (r + 1) * (r + 1)

\* Math.round(40 * Math.pow(n, 0.5)): the k with k - 1/2 <= 40 * sqrt(n) <
\* k + 1/2, that is (2k - 1)^2 <= 6400 n < (2k + 1)^2
round40Sqrt(n) ==
  CHOOSE k \in (40 * floorSqrt(n))..(40 * (floorSqrt(n) + 1)) :
    /\ k = 0 \/ (2 * k - 1) * (2 * k - 1) <= 6400 * n
    /\ 6400 * n < (2 * k + 1) * (2 * k + 1)

trainSpawnRateUncapped(numberOfStations) == round40Sqrt(numberOfStations)

trainSpawnRate(numberOfStations) ==
  Min({trainSpawnCap, round40Sqrt(numberOfStations)})

\* shouldSpawnTrain asks for the rate of a cluster
SpawnRate ==
  /\ game.agent = "config"
  /\ game.rate = Undefined
  /\ game' = [game EXCEPT !.rate = trainSpawnRate(game.numberOfStations)]
  /\ UNCHANGED <<railVars, astarVars, gold, lastStop, stopLog, train, ship, exec>>

\* the cluster gains a station and the rate is asked for again
ClusterGrows ==
  /\ game.agent = "config"
  /\ game.rate # Undefined
  /\ game.numberOfStations < MaxCluster
  /\ game' = [game EXCEPT !.numberOfStations = @ + 1,
                          !.rate = trainSpawnRate(game.numberOfStations + 1)]
  /\ UNCHANGED <<railVars, astarVars, gold, lastStop, stopLog, train, ship, exec>>

\* a rail network without stations
NoNetwork ==
  /\ registered = {}
  /\ railroads = [u \in Units |-> {}]
  /\ cluster = [u \in Units |-> Null]
  /\ stations = [c \in ClusterIds |-> {}]
  /\ reconnected = Null

RailInit ==
  /\ NoNetwork
  /\ hasTrainStation = [u \in Units |-> FALSE]

Init == RailInit /\ NoSearch /\ NoAgents

\* a search is constructed; the rail network plays no part in it
InitAStar ==
  /\ RailInit
  /\ NoAgents
  /\ results = <<>>
  /\ \E land \in Lands, costs \in MapCosts :
       \E sources \in SourceLists, dst \in Tiles :
         \E iterations \in Iterations, maxTries \in 1..MaxTries :
           \E penalty \in Penalties, lifo \in BOOLEAN :
             /\ world = World(land, costs, sources, dst,
                              iterations, maxTries, penalty, lifo)
             /\ astar = NewSerialAStar(world)

Next == ConnectStation \/ RemoveStation

NextReconnect == ConnectStation \/ RemoveStation \/ ReconnectStation

NextAStar == Compute

vars == <<railVars, astarVars, agentVars>>

Spec == Init /\ [][Next]_vars

SpecReconnect == Init /\ [][NextReconnect]_vars

SpecAStar == InitAStar /\ [][NextAStar]_vars

\* no search exists before the path service is asked
InitPathService == RailInit /\ NoAgents /\ NoSearch

NextPathService == FindTilePath \/ FindStationsPath

SpecPathService == InitPathService /\ [][NextPathService]_vars

NextStop == OnTrainStop

SpecStop == Init /\ [][NextStop]_vars

\* a trade ship execution is added by the port of player 1
InitShip ==
  /\ RailInit
  /\ NoSearch
  /\ gold = [p \in Players |-> 0]
  /\ lastStop = Null
  /\ stopLog = <<>>
  /\ train = Null
  /\ exec = Null
  /\ \E owners \in PortOwners, dstPort \in Ports \ {1} :
       /\ owners[dstPort] # owners[1]
       /\ game = [agent |-> "ship", ports |-> [p \in Ports |-> [owner |-> owners[p], active |-> TRUE,
                                                 tile |-> PortTile[p]]],
                  embargo |-> {}, events |-> 0]
       /\ ship = NewTradeShipExecution(owners[1], 1, dstPort)

NextShip == Tick \/ CaptureShip \/ DestroyShip \/ DeletePort \/ CapturePort \/ Embargo

SpecShip == InitShip /\ [][NextShip]_vars

\* a train execution is added by the station of a factory of player 1
InitTrain ==
  /\ RailInit
  /\ NoSearch
  /\ gold = [p \in Players |-> 0]
  /\ lastStop = Null
  /\ stopLog = <<>>
  /\ ship = Null
  /\ exec = Null
  /\ \E owners \in StationOwners, route \in Routes, lengths \in RailLengths :
       \E friendly \in Friendships, embargo \in Embargoes :
         /\ game = [agent |-> "train",
                    units |-> [s \in StationIds |->
                                 [active |-> TRUE, owner |-> owners[s],
                                  type |-> StationType[s],
                                  level |-> ((s - 1) % MaxLevel) + 1]],
                    rails |-> lengths, route |-> route, friendly |-> friendly,
                    embargo |-> embargo, engineLost |-> FALSE, events |-> 0]
         /\ train = NewTrainExecution(owners[1], 1,
                                      IF route = <<>> THEN 2 ELSE route[Len(route)],
                                      numCars)

NextTrain ==
  TrainInit \/ TrainTick \/ DeleteStationUnit \/ DeleteEngine \/ DeleteCar \/ StopTrade

SpecTrain == InitTrain /\ [][NextTrain]_vars

\* the trains of one owner on the routes over every railroad layout
InitTrainLive ==
  /\ InitTrain
  /\ game.friendly = {} /\ game.embargo = {}
  /\ \A s \in StationIds : game.units[s].owner = ((s - 1) % 3) + 1

\* the scheduler ticks an active execution in every step of the simulation
SpecTrainLive == InitTrainLive /\ [][NextTrain]_vars /\ WF_vars(TrainTick)

\* a train execution and the callers of its public methods
NextCargo == NextTrain \/ LoadCargo

SpecCargo == InitTrain /\ [][NextCargo]_vars

\* a train or a trade ship execution is added to the game
InitTrips == InitShip \/ InitTrain

NextTrips == NextShip \/ NextTrain

SpecTrips == InitTrips /\ [][NextTrips]_vars

\* the execution of player 1 is added to the game
InitPlayer ==
  /\ RailInit
  /\ NoSearch
  /\ gold = [p \in Players |-> 0]
  /\ lastStop = Null
  /\ stopLog = <<>>
  /\ train = Null
  /\ ship = Null
  /\ \E name \in PlayerNames, start \in InitTicks :
       /\ game = [agent |-> "player", ticks |-> start, start |-> start,
                  alive |-> TRUE, growth |-> 0, lastTileChange |-> start,
                  units |-> PlayerUnits, alliances |-> PlayerAlliances,
                  embargoes |-> PlayerEmbargoes, calcs |-> <<>>, events |-> 0]
       /\ exec = NewPlayerExecution(1, name)

NextPlayer == PlayerInit \/ PlayerTick \/ TileChange \/ ConquerTile \/ PlayerDies

SpecPlayer == InitPlayer /\ [][NextPlayer]_vars

\* a FactoryExecution, PortExecution or CityExecution of player 1 is added
\* to the game
InitStructure ==
  /\ RailInit
  /\ NoSearch
  /\ gold = [p \in Players |-> 0]
  /\ lastStop = Null
  /\ stopLog = <<>>
  /\ train = Null
  /\ ship = Null
  /\ \E class \in StructureClasses, nearby \in NearbyUnits,
        nearbyFactory \in BOOLEAN, start \in {0, 7} :
       /\ game = [agent |-> "structure", ticks |-> start, start |-> start,
                  nearby |-> nearby, stationed |-> {3},
                  nearbyFactory |-> nearbyFactory, added |-> <<>>,
                  ships |-> 0, events |-> 0]
       /\ exec = NewStructureExecution(class, 1, 5)

NextStructure ==
  StructureInit \/ StructureTick \/ DestroyStructure \/ CaptureStructure

SpecStructure == InitStructure /\ [][NextStructure]_vars

\* a TrainStationExecution for unit 1 is added to the game
InitStation ==
  /\ NoNetwork
  /\ hasTrainStation = setTrainStation([u \in Units |-> FALSE], 1, TRUE)
  /\ NoSearch
  /\ gold = [p \in Players |-> 0]
  /\ lastStop = Null
  /\ stopLog = <<>>
  /\ train = Null
  /\ ship = Null
  /\ \E spawnTrains \in BOOLEAN, level \in {0, 1},
        embargo \in Embargoes, start \in {8} :
       /\ game = [agent |-> "station", ticks |-> start, start |-> start,
                  units |-> [u \in Units |->
                               [owner |-> UnitOwners[u], active |-> TRUE,
                                level |-> level]],
                  embargo |-> embargo, added |-> <<>>, events |-> 0]
       /\ exec = NewTrainStationExecution(1, spawnTrains)

NextStation ==
  \/ StationInit
  \/ StationTick
  \/ NeighbourConnects
  \/ NeighbourRemoved
  \/ StationRemoved
  \/ DestroyStationUnit

SpecStation == InitStation /\ [][NextStation]_vars

\* trainSpawnRate alone, for a number of stations
InitRate ==
  /\ RailInit
  /\ NoSearch
  /\ gold = [p \in Players |-> 0]
  /\ lastStop = Null
  /\ stopLog = <<>>
  /\ train = Null
  /\ ship = Null
  /\ exec = Null
  /\ \E n \in 0..MaxCluster :
       game = [agent |-> "config", numberOfStations |-> n, rate |-> Undefined]

NextRate == SpawnRate \/ ClusterGrows

SpecRate == InitRate /\ [][NextRate]_vars

\* an execution of any class is added to the game
InitExecutions ==
  InitShip \/ InitTrain \/ InitStructure \/ InitStation \/ InitPlayer

NextExecutions ==
  NextShip \/ NextTrain \/ NextStructure \/ NextStation \/ NextPlayer

SpecExecutions == InitExecutions /\ [][NextExecutions]_vars

(***************************************************************************)
(* Properties of the rail network.                                         *)
(***************************************************************************)
AllRailroads == UNION {railroads[u] : u \in Units}

\* the stations a set of railroads joins to station a
JoinedTo(R, a) == {r.to : r \in {x \in R : x.from = a}} \cup {r.from : r \in {x \in R : x.to = a}}

\* the stations within k railroads of R from the stations of S
RECURSIVE Within(_, _, _)
Within(R, S, k) ==
  IF k = 0 THEN S
  ELSE Within(R, S \cup UNION {JoinedTo(R, a) : a \in S}, k - 1)

\* a and b are joined by a chain of railroads
Chained(a, b) == b \in Within(AllRailroads, {a}, Cardinality(Units))

\* the clusters registered stations refer to
ReferencedClusters == {cluster[u] : u \in registered} \ {Null}

\* C1: the clusters partition the registered stations: every registered
\* station has a cluster, is in the station set of that cluster, and is in the
\* station set of no other cluster that a registered station refers to.
ClusterPartition ==
  \A s \in registered :
    /\ cluster[s] # Null
    /\ s \in stations[cluster[s]]
    /\ \A c \in ReferencedClusters : s \in stations[c] => c = cluster[s]

\* C2: two registered stations have the same cluster exactly if a chain of
\* railroads joins them (a cluster is a maximal railroad-connected set).
ClusterIsComponent ==
  \A a, b \in registered : (cluster[a] = cluster[b]) <=> Chained(a, b)

\* C3: there is at most one railroad between any two stations, also after
\* connectStation was invoked a second time for a registered station.
OneRailroadPerPair ==
  \A s \in Units : \A r1, r2 \in railroads[s] :
    {r1.from, r1.to} = {r2.from, r2.to} => r1 = r2

\* a station with a railroad had connectStation invoked for it a second time
ReconnectedConnectedStation ==
  reconnected # Null /\ railroads[reconnected] # {}

\* the railroads a step creates
CreatedRailroads == UNION {railroads'[u] : u \in Units} \ AllRailroads

\* C4: connectStation creates a railroad from the new station S to a candidate
\* N only if N is farther than trainStationMinRange and, counting the railroads
\* created earlier in the call, S is not within maxConnectionDistance hops of
\* N; the railroads are created in ascending order of distance.
ConnectOnlyWhenAvailable ==
  [][\A S \in registered' \ registered :
       /\ \A r \in CreatedRailroads : r.from = S /\ r.to \in registered
       /\ \E order \in Perms({r.to : r \in CreatedRailroads}) :
            \A i \in 1..Len(order) :
              /\ i > 1 => DistSquared(S, order[i - 1]) <= DistSquared(S, order[i])
              /\ DistSquared(S, order[i]) > 15 * 15
              /\ S \notin Within(AllRailroads \cup
                                  {r \in CreatedRailroads :
                                     \E j \in 1..(i - 1) : r.to = order[j]},
                                {order[i]}, 4)]_vars

\* the six stations of the ring are joined into one ring of railroads: the
\* last of them was created between stations more than four hops apart
RingClosed ==
  /\ (1..6) \subseteq registered
  /\ \A a \in 1..6 : (IF a = 6 THEN 1 ELSE a + 1) \in JoinedTo(AllRailroads, a)

\* C5: when connectStation(S) completes, S and every station of every cluster
\* it was connected to share one cluster; if no connection succeeded, S is the
\* only member of a cluster that no other station refers to.
ConnectedShareOneCluster ==
  [][\A S \in registered' \ registered :
       /\ cluster'[S] # Null
       /\ \A r \in CreatedRailroads :
            \A m \in stations[cluster[r.to]] : cluster'[m] = cluster'[S]
       /\ CreatedRailroads = {} =>
            /\ stations'[cluster'[S]] = {S}
            /\ \A u \in registered : cluster'[u] # cluster'[S]]_vars

\* station 1 was connected to the stations 2 and 6, which nothing else joins
ConnectedToTwoClusters ==
  /\ registered = {1, 2, 6}
  /\ \E r1, r2 \in railroads[1] : r1.from = 1 /\ r1.to = 2 /\ r2.from = 1 /\ r2.to = 6
  /\ cluster[1] = cluster[2] /\ cluster[1] = cluster[6]

\* C6: every railroad has a tile path longer than 0 and shorter than
\* railroadMaxSize, and connect registers no railroad and returns false for an
\* empty path and for a path of railroadMaxSize tiles or more.
RailroadLengthBounded ==
  /\ \A r \in AllRailroads : r.len > 0 /\ r.len < 100
  /\ \A a, b \in registered : \A len \in PathLens :
       (len = 0 \/ len >= 100) =>
          connect(railroads, a, b, len) = [ok |-> FALSE, rr |-> railroads]

\* a railroad exists
RailroadExists == AllRailroads # {}

\* C7: two stations that share a cluster stop sharing it only in a
\* removeStation call for a station with more than one neighbor.
SplitOnlyOnHubRemoval ==
  [][\A a, b \in registered \cap registered' :
       (cluster[a] # Null /\ cluster[a] = cluster[b] /\ cluster'[a] # cluster'[b])
         => \E s \in registered \ registered' : Cardinality(railroads[s]) > 1]_vars


(***************************************************************************)
(* Properties of the search.                                               *)
(***************************************************************************)
Returned(type) == \E i \in 1..Len(results) : results[i].type = type

\* C8: compute returns Pending only when the call ran out of its iteration
\* budget while tries remain (maxTries > 0 after the call's decrement) and
\* returns PathNotFound when the budget runs out with no tries left; so at
\* most maxTries-1 calls return Pending and the maxTries-th call returns
\* Completed or PathNotFound.
PendingOnlyWhileTriesRemain ==
  /\ \A i \in 1..Len(results) :
       /\ results[i].type = "Pending" =>
            results[i].budgetOut /\ results[i].maxTries > 0
       /\ (results[i].budgetOut /\ results[i].maxTries <= 0) =>
            results[i].type = "PathNotFound"
  /\ Cardinality({i \in 1..Len(results) : results[i].type = "Pending"})
       <= world.maxTries - 1
  /\ Len(results) >= world.maxTries =>
       results[world.maxTries].type \in {"Completed", "PathNotFound"}

\* every try but the last returned Pending and the last one ran out of budget
TriesUsedUp ==
  /\ world.maxTries > 1
  /\ Len(results) = world.maxTries
  /\ \A i \in 1..(Len(results) - 1) : results[i].type = "Pending"
  /\ results[Len(results)].type = "PathNotFound"
  /\ results[Len(results)].budgetOut

Step(w, from, to) ==
  /\ Adjacent(from, to)
  /\ (to = w.dst \/ to \in w.water)

\* one round of relaxation: the least cost known for tile n and the tiles
\* after it, given the least costs d of the round before (Undefined = none)
RECURSIVE relax(_, _, _)
relax(w, d, n) ==
  IF n > Len(d) THEN <<>>
  ELSE LET via == {d[c] + cost(w, n) :
                     c \in {t \in Tiles : d[t] # Undefined /\ Step(w, t, n)}}
           all == via \cup ({d[n]} \ {Undefined})
       IN <<IF all = {} THEN Undefined ELSE Min(all)>> \o relax(w, d, n + 1)

\* least cost of a path of at most k steps from a source to every tile
RECURSIVE cheapest(_, _, _)
cheapest(w, d, k) ==
  IF k = 0 THEN d
  ELSE LET e == relax(w, d, 1)
       IN IF e = d THEN d ELSE cheapest(w, e, k - 1)

RECURSIVE sourcesAtZero(_, _)
sourcesAtZero(w, n) ==
  IF n > Len(MapX) THEN <<>>
  ELSE <<IF n \in SeqRange(w.sources) THEN 0 ELSE Undefined>> \o sourcesAtZero(w, n + 1)

\* the minimum cost of any path from a source to the destination
MinCost(w) == cheapest(w, sourcesAtZero(w, 1), Len(MapX))[w.dst]

\* sum of cost(node) over the nodes a path enters
RECURSIVE PathCost(_, _)
PathCost(w, path) ==
  IF Len(path) <= 1 THEN 0
  ELSE cost(w, path[Len(path)]) + PathCost(w, SubSeq(path, 1, Len(path) - 1))

\* C10: the path returned on Completed is a path from a source to the
\* destination that need not be a shortest one: with directionChangePenalty = 0
\* its total cost is at least the minimum cost of a path from a source to the
\* destination, and at most fwdGScore(m) + bwdGScore(m) - cost(m) + cost(dst)
\* for the meeting point m.
CompletedPathCostBounded ==
  (Returned("Completed") /\ world.directionChangePenalty = 0) =>
    LET m == astar.meetingPoint
        pathCost == PathCost(world, reconstructPath(astar))
        minCost == MinCost(world)
    IN /\ minCost # Undefined
       /\ minCost <= pathCost
       /\ pathCost <= astar.fwdGScore[m] + astar.bwdGScore[m]
                        - cost(world, m) + cost(world, world.dst)

\* a search from one source over open water completed with a path that costs
\* more than the cheapest one
CostlierThanShortest ==
  /\ Returned("Completed")
  /\ world.directionChangePenalty = 0
  /\ Len(world.sources) = 1
  /\ world.water = Tiles
  /\ PathCost(world, reconstructPath(astar)) > MinCost(world)

\* C10 (as stated): with directionChangePenalty = 0 the cost of the path
\* returned on Completed equals the minimum cost of any path from a source to
\* the destination.
CompletedPathIsShortest ==
  (Returned("Completed") /\ world.directionChangePenalty = 0) =>
    PathCost(world, reconstructPath(astar)) = MinCost(world)

\* the fields of a search that the search itself reads and writes (maxTries
\* counts calls, not search steps)
SearchState(a) ==
  <<a.fwdOpenSet, a.bwdOpenSet, a.fwdCameFrom, a.bwdCameFrom,
    a.fwdGScore, a.bwdGScore, a.meetingPoint, a.completed>>

\* the same search run in one call of the given iteration budget
SingleCall(w, iterations) == computeLoop(w, NewSerialAStar(w), iterations).a

\* C11: a Pending return preserves the search state: after any number of
\* calls the search is where one call with the iterations of all those calls
\* together would be, and once it completed it has the meeting point and the
\* path of a single call with a budget large enough to finish.
ResumedEqualsSingleCall ==
  /\ SearchState(astar)
       = SearchState(SingleCall(world, Len(results) * (world.iterations - 1) + 1))
  /\ Returned("Completed") =>
       LET single == SingleCall(world, pathIterations)
       IN /\ astar.meetingPoint = single.meetingPoint
          /\ reconstructPath(astar) = reconstructPath(single)

\* a search completed in a later call than its first, after Pending returns,
\* with a path of more than two nodes
ResumedToCompletion ==
  /\ Len(results) > 1
  /\ results[1].type = "Pending"
  /\ results[Len(results)].type = "Completed"
  /\ results[Len(results) - 1].type # "Completed"
  /\ Len(reconstructPath(astar)) > 2

(***************************************************************************)
(* Properties of the train stop handlers.                                  *)
(***************************************************************************)
\* C12: at every train stop the gold amount is trainGold(isFriendly) *
\* (level + 1) at a City or a Port and trainGold(isFriendly) at a Factory
\* whatever its level, with trainGold 100000 when the station owner is
\* friendly to the train owner and 25000 otherwise; a station of any other
\* unit type pays nothing.
StopGoldAmount ==
  stopLog # <<>> =>
    LET base == IF lastStop.isFriendly THEN 100000 ELSE 25000
        amount == IF lastStop.type \in {"City", "Port"}
                    THEN base * (lastStop.level + 1) ELSE base
    IN IF lastStop.type \in {"City", "Port", "Factory"}
         THEN /\ lastStop.calls # <<>>
              /\ \A i \in 1..Len(lastStop.calls) : lastStop.calls[i].amount = amount
         ELSE lastStop.calls = <<>>

\* a train stopped at a factory of a level above the first
StoppedAtHighFactory ==
  /\ stopLog # <<>>
  /\ lastStop.type = "Factory"
  /\ lastStop.level > 1
  /\ lastStop.calls # <<>>

\* C13: at a stop of a friendly station owner both the station owner and the
\* train owner are credited the full amount; otherwise only the train owner
\* is credited and no other player's gold changes.
StopGoldReceivers ==
  [][(stopLog' # stopLog /\ lastStop'.calls # <<>>) =>
       LET stop == lastStop'
           amount == stop.calls[1].amount
           received(p) == gold'[p] - gold[p]
       IN IF stop.isFriendly
            THEN \A p \in Players :
                   received(p) = amount * Cardinality({r \in {"station", "train"} :
                                   p = (IF r = "station" THEN stop.stationOwner
                                        ELSE stop.trainOwner)})
            ELSE /\ received(stop.trainOwner) = amount
                 /\ \A p \in Players \ {stop.trainOwner} : received(p) = 0]_vars

\* a friendly stop at a station of another player paid both players
FriendlyStopPaidBoth ==
  /\ stopLog # <<>>
  /\ lastStop.isFriendly
  /\ lastStop.stationOwner # lastStop.trainOwner
  /\ gold[lastStop.stationOwner] > 0
  /\ gold[lastStop.trainOwner] > 0
  /\ Len(stopLog) = 1

\* a step of TradeShipExecution.tick that found the ship built and active, or
\* built it: the game changes in no tick, and in every other step
TickOfActiveShip ==
  /\ game.agent = "ship"
  /\ game' = game
  /\ ship.built => ship.unitActive
  /\ ship'.built

\* what the tick sees of the ship's capture
seenCaptured == ship.wasCaptured \/ ship.owner # ship.origOwner

receivedGold(p) == gold'[p] - gold[p]

lastOutcome == stopLog[Len(stopLog)]

\* C14: when a trade ship completes its trip, the amount is
\* tradeShipGold(tilesTraveled, number of ports of the ship's owner); if the
\* ship was never captured the owner of the source port and the owner of the
\* destination port each receive that full amount, and if it was captured only
\* the ship's current owner receives it; no other player's gold changes, so
\* the original owner and the source port's owner receive gold from it only
\* when they are that current owner.
CompletionPayout ==
  [][(TickOfActiveShip /\ Len(stopLog') > Len(stopLog)
        /\ stopLog'[Len(stopLog')] \in {<<"completed">>, <<"redirected", "completed">>}) =>
       LET amount == tradeShipGold(ship'.tilesTraveled, unitCount(game, ship'.owner))
           srcOwner == game.ports[ship'.srcPort].owner
           dstOwner == game.ports[ship'.dstPort].owner
       IN /\ amount >= 50000 + 100 * ship'.tilesTraveled
          /\ IF ship'.wasCaptured
               THEN /\ receivedGold(ship'.owner) = amount
                    /\ \A p \in Players \ {ship'.owner} : receivedGold(p) = 0
               ELSE /\ srcOwner # dstOwner
                    /\ receivedGold(srcOwner) = amount
                    /\ receivedGold(dstOwner) = amount
                    /\ \A p \in Players \ {srcOwner, dstOwner} : receivedGold(p) = 0]_vars

\* a captured ship completed its trip: its captor was paid and its original
\* owner was not
CapturedShipPaidCaptor ==
  /\ stopLog # <<>>
  /\ lastOutcome[Len(lastOutcome)] = "completed"
  /\ ship.wasCaptured
  /\ ship.owner # ship.origOwner
  /\ gold[ship.owner] > 0
  /\ gold[ship.origOwner] = 0

\* C14 (as stated): when a trade ship completes its trip, an uncaptured ship
\* pays the full amount to the owners of both ports, and a captured ship pays
\* its current owner only, the original owner and the source port's owner
\* receiving no gold from it.
CompletionNeverPaysOrigOwner ==
  [][(TickOfActiveShip /\ Len(stopLog') > Len(stopLog)
        /\ stopLog'[Len(stopLog')] \in {<<"completed">>, <<"redirected", "completed">>}) =>
       LET amount == tradeShipGold(ship'.tilesTraveled, unitCount(game, ship'.owner))
           srcOwner == game.ports[ship'.srcPort].owner
           dstOwner == game.ports[ship'.dstPort].owner
       IN IF ship'.wasCaptured
            THEN /\ receivedGold(ship'.owner) = amount
                 /\ receivedGold(ship'.origOwner) = 0
                 /\ receivedGold(srcOwner) = 0
            ELSE /\ receivedGold(srcOwner) = amount
                 /\ receivedGold(dstOwner) = amount]_vars

\* C15: a tick with an active ship deletes the ship and makes the execution
\* inactive, paying no gold, when the destination port's owner is the source
\* port's owner, and when the ship is not captured and the destination port is
\* inactive or the ship's owner cannot trade with the destination's owner.
InvalidTradeDeletesShip ==
  [][TickOfActiveShip =>
       LET dstPort == game.ports[ship.dstPort]
           sameOwner == dstPort.owner = game.ports[ship.srcPort].owner
           tradeEnded == /\ ~seenCaptured
                         /\ \/ ~dstPort.active
                            \/ {ship.owner, dstPort.owner} \in game.embargo
       IN (sameOwner \/ tradeEnded) =>
            /\ ~ship'.unitActive
            /\ ~ship'.active
            /\ gold' = gold]_vars

\* an uncaptured ship was deleted because its owner could no longer trade
\* with the owner of its active destination port
EmbargoEndedTrade ==
  /\ stopLog # <<>>
  /\ lastOutcome = <<"tradeEnded">>
  /\ game.ports[ship.dstPort].active
  /\ {ship.owner, game.ports[ship.dstPort].owner} \in game.embargo
  /\ ~ship.unitActive
  /\ ~ship.active
  /\ gold = [p \in Players |-> 0]

TrainTickStep ==
  /\ game.agent = "train"
  /\ train.mg
  /\ game' = game

\* every unit the execution owns: the engine, then the tail engine and the
\* carriages
ownedUnits(t) == t.train \o t.cars

allDeleted(t) == \A i \in 1..Len(ownedUnits(t)) : ~ownedUnits(t)[i].active

allReached(t) == \A i \in 1..Len(ownedUnits(t)) : ownedUnits(t)[i].reached

unitTiles(t) == [i \in 1..Len(ownedUnits(t)) |-> ownedUnits(t)[i].tile]

\* C18: a tick that finds the engine inactive, or stations[0] or stations[1]
\* inactive, leaves every unit of the train deleted and the execution
\* inactive, moves no unit, advances no tile index and runs no stop handler.
InactiveEndDeletesTrain ==
  [][(/\ TrainTickStep
      /\ \/ ~train.train[1].active
         \/ ~game.units[train.stations[1]].active
         \/ ~game.units[train.stations[2]].active) =>
       /\ allDeleted(train')
       /\ ~train'.active
       /\ train'.currentTile = train.currentTile
       /\ train'.usedTiles = train.usedTiles
       /\ train'.stations = train.stations
       /\ unitTiles(train') = unitTiles(train)
       /\ ~allReached(train')
       /\ stopLog' = stopLog
       /\ gold' = gold]_vars

\* a train under way was deleted, with a car that was still active, because
\* the station it was heading for is gone
DeletedOnLostStation ==
  /\ game.agent = "train"
  /\ train.mg
  /\ ~train.active
  /\ train.train # <<>>
  /\ ~game.engineLost
  /\ ~game.units[train.stations[2]].active
  /\ game.units[train.stations[1]].active
  /\ train.currentTile > 0
  /\ allDeleted(train)
  /\ ~allReached(train)

RECURSIVE isPrefix(_, _)
isPrefix(p, q) ==
  \/ p = <<>>
  \/ /\ q # <<>>
     /\ p[1] = q[1]
     /\ isPrefix(Tail(p), Tail(q))

\* the stations of the route are active and open to the train's owner, the
\* railroads between them exist, and nobody destroyed the engine
routeUndisturbed ==
  /\ ~game.engineLost
  /\ \A i \in 1..Len(game.route) :
       /\ game.units[game.route[i]].active
       /\ i > 1 => tradeAvailable(game, game.route[i], train.player)
       /\ i > 1 => getOrientedRailroad(game, game.route[i - 1], game.route[i]) # <<>>

UnitsBuiltOnce ==
  /\ [](game.agent = "train" => Len(ownedUnits(train)) <= train.numCars + 2)
  /\ [][(game.agent = "train" /\ Len(ownedUnits(train')) # Len(ownedUnits(train))) =>
          /\ ~train.mg
          /\ train'.mg
          /\ Len(ownedUnits(train)) = 0
          /\ Len(train'.train) = 1
          /\ train'.cars[1].trainType = "Engine"
          /\ Len(train'.cars) = train.numCars + 1
          /\ \A i \in 2..Len(train'.cars) : train'.cars[i].trainType = "Carriage"]_vars

\* a train with all its numCars + 2 units has left its first station
FullTrainUnderWay ==
  /\ game.agent = "train"
  /\ train.active
  /\ Len(ownedUnits(train)) = numCars + 2
  /\ Len(train.stations) = 2
  /\ Len(stopLog) > 0
  /\ train.currentTile > 0

\* C17: when a station of a train's current segment (stations[0] or
\* stations[1]), or the destination port of a trade ship that is not captured,
\* has become inactive since the last tick, the next tick of that agent
\* deletes its units and makes the execution inactive, at every point of the
\* trip.
InactiveEndpointDeletesAgent ==
  [][/\ (/\ TrainTickStep
         /\ \/ ~game.units[train.stations[1]].active
            \/ ~game.units[train.stations[2]].active) =>
          /\ allDeleted(train')
          /\ ~train'.active
     /\ (/\ TickOfActiveShip
         /\ ~seenCaptured
         /\ ~game.ports[ship.dstPort].active) =>
          /\ ~ship'.unitActive
          /\ ~ship'.active]_vars

\* a trade ship under way was deleted because its destination port is gone
ShipDeletedOnLostPort ==
  /\ game.agent = "ship"
  /\ stopLog # <<>>
  /\ lastOutcome = <<"tradeEnded">>
  /\ ~game.ports[ship.dstPort].active
  /\ game.embargo = {}
  /\ ship.tilesTraveled > 0
  /\ ~ship.unitActive
  /\ ~ship.active

\* C17 (as stated): when the source or the destination of a train (the
\* stations of its current segment) or of a trade ship (its source port or its
\* destination port) has become inactive since the last tick, the next tick
\* of that agent deletes its units and makes the execution inactive (for the
\* ship: in every tick after the one that built it).
InactiveSourceDeletesAgent ==
  [][/\ (/\ TrainTickStep
         /\ \/ ~game.units[train.stations[1]].active
            \/ ~game.units[train.stations[2]].active) =>
          /\ allDeleted(train')
          /\ ~train'.active
     /\ (/\ TickOfActiveShip
         /\ ship.built
         /\ \/ ~game.ports[ship.srcPort].active
            \/ ~game.ports[ship.dstPort].active) =>
          /\ ~ship'.unitActive
          /\ ~ship'.active]_vars

\* C21: when findStationsPath returns fewer than two stations (the empty path
\* included), init builds no unit and leaves the execution inactive, and it
\* stays so.
ShortPathBuildsNothing ==
  (game.agent = "train" /\ train.mg /\ Len(game.route) < 2) =>
    /\ ownedUnits(train) = <<>>
    /\ ~train.active
    /\ train.stations = <<>>
    /\ train.currentRailroad = <<>>

\* init ran on a path of the source alone
InitOnSourceAlone ==
  /\ game.agent = "train"
  /\ train.mg
  /\ game.route = <<1>>
  /\ ~train.active
  /\ ownedUnits(train) = <<>>

\* the calls of the last tick with a given name
calls(name) == {i \in 1..Len(stopLog) : stopLog[i][1] = name}

\* the place of a call in the order of a tick
phase(call) ==
  CASE call[1] = "decayRelations" -> 1
    [] call[1] \in {"captureUnit", "deleteUnit"} -> 2
    [] call[1] = "isAlive" -> 3
    [] call[1] = "addTroops" -> 4
    [] call[1] = "addGold" -> 5
    [] call[1] = "expire" -> 6
    [] call[1] = "stopEmbargo" -> 7
    [] call[1] = "removeClusters" -> 8
    [] OTHER -> 0

tickedAlive == game.agent = "player" /\ \E i \in calls("isAlive") : stopLog[i][2] = 1

tickedDead == game.agent = "player" /\ \E i \in calls("isAlive") : stopLog[i][2] = 0

\* C22: a tick of a living player decays relations, validates territory-bound
\* units, checks elimination, adds troops, adds exactly goldAdditionRate = 100
\* gold, expires alliances, stops temporary embargoes and then, optionally,
\* recomputes the territory clusters, in that order.
LivingTickOrder ==
  /\ [](tickedAlive =>
          /\ \A i, j \in 1..Len(stopLog) :
               i < j => phase(stopLog[i]) <= phase(stopLog[j])
          /\ \A i \in 1..Len(stopLog) : phase(stopLog[i]) > 0
          /\ \A name \in {"decayRelations", "isAlive", "addTroops", "addGold"} :
               Cardinality(calls(name)) = 1
          /\ \A i \in calls("addGold") : stopLog[i][2] = 100
          /\ Cardinality(calls("removeClusters")) <= 1)
  /\ [][(game.agent = "player" /\ game.alive /\ game'.ticks # game.ticks) =>
          /\ gold'[exec.player] = gold[exec.player] + 100
          /\ game'.growth = game.growth + 1
          /\ exec'.active]_vars

\* a tick that captured a unit, expired an alliance, stopped an embargo and
\* recomputed the clusters
AllPhasesInOneTick ==
  /\ tickedAlive
  /\ calls("captureUnit") # {} /\ calls("expire") # {}
  /\ calls("stopEmbargo") # {} /\ calls("removeClusters") # {}

\* the units the player of the execution still owns
unitsOf(types) ==
  {i \in 1..Len(game.units) :
     /\ game.units[i].owner = exec.player
     /\ game.units[i].active
     /\ game.units[i].type \in types}

AllTypes ==
  {"Factory", "Port", "City", "Train", "TradeShip", "Construction"} \cup BombTypes

\* C23: a tick of a player that is not alive takes all its gold, deletes each
\* of its units that is not an AtomBomb, HydrogenBomb, MIRV or MIRVWarhead,
\* leaves the execution inactive, and adds no troops, no worker gold and
\* expires no alliance or embargo.
EliminatedPlayerTick ==
  /\ [](tickedDead =>
          /\ gold[exec.player] = 0
          /\ unitsOf(AllTypes \ BombTypes) = {}
          /\ ~exec.active
          /\ \A name \in {"addTroops", "addGold", "expire", "stopEmbargo",
                          "removeClusters"} : calls(name) = {})
  /\ [][(game.agent = "player" /\ ~game.alive /\ game'.ticks # game.ticks) =>
          /\ gold' = [gold EXCEPT ![exec.player] = 0]
          /\ unitsOf(BombTypes)' = unitsOf(BombTypes)
          /\ game'.growth = game.growth
          /\ game'.alliances = game.alliances
          /\ game'.embargoes = game.embargoes
          /\ game'.calcs = game.calcs
          /\ ~exec'.active]_vars

\* a player with gold, a trade ship and four bombs was eliminated when an
\* alliance and an embargo were due
EliminatedWithGoldAndBombs ==
  /\ tickedDead
  /\ \E i \in calls("removeGold") : stopLog[i][2] > 0
  /\ \E i \in calls("deleteUnit") : game.units[stopLog[i][2]].type = "TradeShip"
  /\ Cardinality(unitsOf(BombTypes)) = 4
  /\ \E i \in 1..Len(game.alliances) :
       ~game.alliances[i].expired /\ game.alliances[i].expiresAt < game.ticks
  /\ \E i \in 1..Len(game.embargoes) :
       /\ ~game.embargoes[i].stopped /\ game.embargoes[i].isTemporary
       /\ game.ticks - 1 - game.embargoes[i].createdAt > temporaryEmbargoDuration

\* the tick from which the execution counts: the tick of init plus the hash
\* of the player's name modulo ticksPerClusterCalc
offsetTick == game.start + (simpleHash(exec.name) % 20)

\* C24: two cluster recomputes of one execution are more than 20 ticks
\* apart, the first is more than 20 ticks after the offset tick (the tick of
\* init plus hash(name) mod 20), and a recompute happens only if the player's
\* tiles changed since the previous one.
ClusterRecomputeSpacing ==
  /\ [](game.agent = "player" =>
          /\ \A i, j \in 1..Len(game.calcs) :
               i < j => game.calcs[j] - game.calcs[i] > 20
          /\ \A i \in 1..Len(game.calcs) : game.calcs[i] - offsetTick > 20)
  /\ [][(game.agent = "player" /\ game'.calcs # game.calcs) =>
          /\ Len(game'.calcs) = Len(game.calcs) + 1
          /\ game.lastTileChange >
               (IF game.calcs = <<>> THEN offsetTick
                ELSE game.calcs[Len(game.calcs)])]_vars

\* the clusters were recomputed twice
RecomputedTwice ==
  /\ game.agent = "player" /\ Len(game.calcs) = 2
  /\ game.calcs[2] - game.calcs[1] = 21

\* C30: two trains spawned by one TrainStationExecution are at least
\* ticksCooldown (10) ticks apart, no train is spawned before tick 10, and only
\* an execution created with spawnTrains = true spawns a train.
SpawnCooldown ==
  game.agent = "station" =>
    /\ \A i, j \in 1..Len(game.added) :
         i < j => game.added[j].tick - game.added[i].tick >= 10
    /\ \A i \in 1..Len(game.added) : game.added[i].tick >= 10
    /\ game.added # <<>> => exec.spawnTrains

\* a train at tick 10 and the next one at tick 20
SpawnedAtCooldown ==
  /\ game.agent = "station" /\ Len(game.added) = 2
  /\ game.added[1].tick = 10 /\ game.added[2].tick = 20

\* C25: when canBuild returns false for the unit an execution wants to build
\* (FactoryExecution, PortExecution, CityExecution and TradeShipExecution in
\* their first tick, TrainExecution in init), the execution is inactive,
\* buildUnit is not called, no station or train execution is added, and the
\* build is not attempted again.
BuildFailureIsFinal ==
  /\ (game.agent = "structure"
        /\ \E i \in calls("canBuild") : stopLog[i][2] = 0) =>
       /\ ~exec.active
       /\ ~exec.built
       /\ calls("buildUnit") = {}
       /\ calls("addExecution") = {}
       /\ game.added = <<>>
       /\ Cardinality(calls("canBuild")) = 1
  /\ (game.agent = "ship"
        /\ \E i \in 1..Len(stopLog) : stopLog[i] = <<"cannotBuild">>) =>
       /\ ~ship.active
       /\ ~ship.built
       /\ Len(stopLog) = 1
  /\ (game.agent = "train" /\ train.mg
        /\ train.currentRailroad # <<>> /\ train.train = <<>>) =>
       /\ ~train.active
       /\ train.cars = <<>>
       /\ stopLog = <<>>

\* a factory that could not be built
FactoryNotBuilt ==
  /\ game.agent = "structure" /\ exec.class = "Factory"
  /\ exec.mg /\ ~exec.active /\ ~exec.built
  /\ stopLog = <<<<"canBuild", 0>>>>

\* isActive() of the execution in the game
isActive ==
  IF game.agent = "ship" THEN ship.active
  ELSE IF game.agent = "train" THEN train.active
  ELSE exec.active

\* the tiles of the units a train or trade-ship execution owns
agentTiles ==
  IF game.agent = "ship" THEN <<ship.tile>>
  ELSE IF game.agent = "train"
    THEN [i \in 1..Len(ownedUnits(train)) |-> ownedUnits(train)[i].tile]
  ELSE <<>>

graph == <<registered, railroads, cluster, stations>>

\* a step in which connectStation or removeStation runs: the first tick of a
\* station execution, or the connection or removal of another station
graphCall ==
  /\ game.agent = "station"
  /\ \/ ~exec.station /\ exec'.station
     \/ exec' = exec /\ game'.ticks = game.ticks /\ game'.units = game.units

\* C27: the station graph (registered stations, the railroads and the cluster
\* of each station, the stations of each cluster) changes only inside
\* connectStation and removeStation; TrainExecution init and tick,
\* TradeShipExecution tick, PlayerExecution tick and train spawning leave it
\* unchanged.
GraphChangesOnlyInCalls ==
  [][/\ graph' # graph => graphCall
     /\ (game.agent = "station" /\ exec.station /\ game'.ticks # game.ticks) =>
          graph' = graph
     /\ game.agent \in {"ship", "train", "player"} => graph' = graph]_vars

\* a train was spawned from a cluster of three stations
SpawnedInCluster ==
  /\ game.agent = "station" /\ game.added # <<>>
  /\ cluster[1] # Null /\ Cardinality(stations[cluster[1]]) = 3
  /\ Cardinality(railroads[1]) = 2

\* C28: trainSpawnRate(n) = min(1400, round(40 * sqrt(n))) does not decrease
\* when n grows, never exceeds 1400, is 200 at n = 25, and is 1400 exactly
\* from n = 1225 on (below 1400 for every n < 1225).
SpawnRateShape ==
  /\ []((game.agent = "config" /\ game.rate # Undefined) =>
          /\ game.rate <= 1400
          /\ game.numberOfStations = 25 => game.rate = 200
          /\ (game.rate = 1400) = (game.numberOfStations >= 1225)
          /\ game.rate >= 0)
  /\ [][(game.agent = "config" /\ game.rate # Undefined) =>
          game'.rate >= game.rate]_vars

\* the rate of 1224 stations, one below the cap
OneBelowCap ==
  /\ game.agent = "config"
  /\ game.numberOfStations = 1224 /\ game.rate = 1399

\* the tile of the ship's unit, once it is built
shipTile(s) == IF s.built THEN s.tile ELSE PortTile[s.srcPort]

\* C29: tilesTraveled counts the NextTile results of the path finder: it
\* starts at 0, grows by exactly 1 in a tick that moves the ship to the next
\* tile and is unchanged by Pending, by a redirect after capture and by every
\* deletion path, so the gold paid on arrival is tradeShipGold of that count.
TilesTraveledCountsMoves ==
  /\ []((game.agent = "ship" /\ ~ship.built) => ship.tilesTraveled = 0)
  /\ [][game.agent = "ship" =>
          /\ (ship'.built /\ shipTile(ship') # shipTile(ship)) =>
               ship'.tilesTraveled = ship.tilesTraveled + 1
          /\ (ship'.built /\ shipTile(ship') = shipTile(ship)) =>
               ship'.tilesTraveled = ship.tilesTraveled
          /\ ~ship'.built => ship'.tilesTraveled = ship.tilesTraveled
          /\ gold' # gold =>
               /\ ship'.tilesTraveled = ship.tilesTraveled
               /\ \A p \in Players :
                    gold'[p] - gold[p] \in
                      {0, tradeShipGold(ship.tilesTraveled,
                                        unitCount(game, ship'.owner))}]_vars

\* a captured ship that was redirected and paid for its two tiles on arrival
PaidForTwoTiles ==
  /\ game.agent = "ship" /\ ~ship.active /\ ship.wasCaptured
  /\ ship.tilesTraveled = 2
  /\ \E i \in 1..Len(stopLog) : stopLog[i] = <<"redirected", "completed">>
  /\ \E p \in Players : gold[p] > 0

\* the carriages of the train that are marked loaded
loadedCars(t) == {i \in 1..Len(t.cars) : t.cars[i].loaded}

\* the flag is never cleared, loadCargo is idempotent, the tail engine stays
\* unloaded and the gold of a stop is the same with the flag inverted
CargoNeverUnloaded ==
  /\ [](game.agent = "train" => 1 \notin loadedCars(train))
  /\ [][game.agent = "train" =>
          /\ train.hasCargo => train'.hasCargo
          /\ train.hasCargo => loadedCars(train') = loadedCars(train)
          /\ loadCargo(loadCargo(train)) = loadCargo(train)
          /\ stopLog' # stopLog =>
               gold' = payAll(gold, stopCalls(game, [train EXCEPT !.hasCargo = ~@],
                                              trainTick(game, train).stops, 1), 1)]_vars

\* C31: during one trip the cargo flag is toggled exactly once, from unloaded
\* to loaded: a train that reached its target has it set; it never returns to
\* unloaded, a repeated loadCargo changes nothing, the tail engine is never
\* marked loaded, and the gold paid at a stop does not depend on the flag.
CargoLoadedOncePerTrip ==
  /\ []((game.agent = "train" /\ train.train # <<>> /\ allReached(train)) =>
          train.hasCargo)
  /\ CargoNeverUnloaded

\* the stations one railroad away from a station of w, and w itself
grown(w) ==
  w \cup {u \in Units : \E v \in w : \E r \in railroads[v] : {r.from, r.to} = {u, v}}

\* the sets of stations within 0, 1, 2, ... railroads of a start (one list, as
\* a singleton), given the first k + 1 of them
RECURSIVE layers(_, _)
layers(ls, k) ==
  IF k = Len(TileX) THEN {ls}
  ELSE UNION {layers(Append(ls, g), k + 1) : g \in {grown(ls[k + 1])}}

\* the minimum number of railroad hops to station d, -1 without a route
hops(ls, d) ==
  IF \A k \in 1..Len(ls) : d \notin ls[k] THEN -1
  ELSE Min({k \in 1..Len(ls) : d \in ls[k]}) - 1

\* C32: distanceFrom returns 0 for start = dest, the exact minimum number of
\* railroad hops when that number is between 1 and maxDistance and -1
\* otherwise, never more than maxDistance; so connectionAvailable holds in
\* connectToNearbyStations exactly for the candidates that are not reachable
\* within maxConnectionDistance hops
DistanceFromIsHopCount ==
  \A s \in registered : \A ls \in layers(<<{s}>>, 0) :
  \A d \in registered : \A h \in {hops(ls, d)} :
    /\ \A m \in 0..MaxDistance : \A r \in {distanceFrom(railroads, s, d, m)} :
         /\ r <= m
         /\ r = IF s = d THEN 0 ELSE IF h >= 1 /\ h <= m THEN h ELSE -1
    /\ connectionAvailable(distanceFrom(railroads, s, d, maxConnectionDistance))
         <=> h \notin 0..maxConnectionDistance

\* two stations joined by a route of five hops and no shorter one
FiveHopsApart ==
  \E s \in registered, d \in registered :
    /\ \A ls \in layers(<<{s}>>, 0) : hops(ls, d) = maxConnectionDistance + 1
    /\ distanceFrom(railroads, s, d, maxConnectionDistance) = -1
    /\ distanceFrom(railroads, s, d, MaxDistance) = maxConnectionDistance + 1

\* what removeStation leaves of the station of unit u: no registration, no
\* railroad of a remaining station to it, no membership in a remaining
\* station's cluster
stationGone(u) ==
  /\ u \notin registered'
  /\ \A v \in registered' :
       /\ \A r \in railroads'[v] : u \notin {r.from, r.to}
       /\ cluster'[v] # Null => u \notin stations'[cluster'[v]]

\* removeStation clears the flag of a station that had a railroad, and leaves
\* no trace of any removed station in the network
RemovedStationUnlinked ==
  [][\A u \in registered \ registered' :
       /\ stationGone(u)
       /\ railroads[u] # {} => ~hasTrainStation'[u]]_vars

\* C33: after removeStation(unit) for a unit with a registered station, the
\* unit's hasTrainStation flag is false, the station is not registered, no
\* remaining station has a railroad to it and no remaining station's cluster
\* contains it, whether the station had 0, 1 or more neighbors
RemovedStationLeavesNoTrace ==
  [][\A u \in registered \ registered' :
       ~hasTrainStation'[u] /\ stationGone(u)]_vars

\* the ticks of the ship so far that ended in complete()
completions == {i \in 1..Len(stopLog) : stopLog[i][Len(stopLog[i])] = "completed"}

\* the step is a tick that found the ship on its destination tile or whose
\* path finder returned Completed
arrivalTick ==
  /\ Len(stopLog') = Len(stopLog) + 1
  /\ ship.built => ship.unitActive
  /\ \/ ship'.tile = game.ports[ship'.dstPort].tile
     \/ \E spawn \in {Null, game.ports[ship.srcPort].tile}, port \in FirstPorts(game, ship) :
          ship' = shipTick(game, ship, spawn, port, "Completed").ship

\* the outcomes of the ticks that delete the ship or end the execution
\* without an arrival
Deletions ==
  {<<"cannotBuild">>, <<"shipInactive">>, <<"sameOwner">>, <<"tradeEnded">>,
   <<"noPorts">>, <<"pathNotFound">>, <<"redirected", "pathNotFound">>}

\* C34: a trade ship pays gold at most once in its life and only on arrival
\* (its tile is the destination tile, or the path finder returns Completed);
\* the ticks that delete it for another reason (ports of one owner, illegal
\* trade, captor without ports, PathNotFound, ship unit inactive) credit no
\* gold, and after complete() no step credits gold again
ShipPaysOnceOnArrival ==
  /\ [](game.agent = "ship" =>
          /\ Cardinality(completions) <= 1
          /\ completions = {} => \A p \in Players : gold[p] = 0)
  /\ [][game.agent = "ship" =>
          /\ gold' # gold => arrivalTick /\ completions = {} /\ completions' # {}
          /\ (Len(stopLog') > Len(stopLog) /\ stopLog'[Len(stopLog')] \in Deletions) =>
               gold' = gold
          /\ ~ship.active => gold' = gold]_vars

\* a ship was paid for when the path finder returned Completed before the
\* ship stood on the destination tile, and its execution has ended
PaidOnCompletedPath ==
  /\ game.agent = "ship"
  /\ completions # {}
  /\ ~ship.active
  /\ ship.tile # game.ports[ship.dstPort].tile
  /\ \E p \in Players : gold[p] > 0

\* the step marks the units of the train target-reached
marksReached ==
  /\ train.train # <<>>
  /\ \A i \in 1..Len(ownedUnits(train)) : ~ownedUnits(train)[i].reached
  /\ allReached(train')

\* the step ran the stop handler of the final station of the route
finalStopRan ==
  /\ Len(stopLog') > Len(stopLog)
  /\ stopLog'[Len(stopLog')] = train.destination

\* the step ran the stop handler of a station before the final one, from
\* which the route has no railroad to the next station
segmentMissing ==
  /\ Len(stopLog') > Len(stopLog)
  /\ Len(train.stations) > 2
  /\ stopLog'[Len(stopLog')] = train.stations[2]
  /\ getOrientedRailroad(game, train.stations[2], train.stations[3]) = <<>>

\* the owner of the next station of the route does not trade with the train's
\* player
tradeStopped ==
  /\ Len(train.stations) > 1
  /\ ~tradeAvailable(game, train.stations[2], train.player)

\* a tick of a train whose engine and current stations are active
tickOfRunningTrain ==
  /\ game.agent = "train"
  /\ train.mg /\ train.active /\ train.train # <<>>
  /\ train' # train
  /\ game' = game
  /\ train.train[1].active /\ activeSourceOrDestination(game, train)

RECURSIVE traversableFrom(_, _)
traversableFrom(w, S) ==
  LET T == S \cup {n \in Tiles : \E t \in S : Adjacent(t, n) /\ isTraversable(w, t, n)}
  IN IF T = S THEN S ELSE traversableFrom(w, T)

\* the destination is reachable from a source through traversable edges
Reachable(w) == w.dst \in traversableFrom(w, SeqRange(w.sources))

\* C36: if the destination is reachable from a source through edges the graph
\* adapter reports traversable, a call of compute that does not run out of its
\* iteration budget returns Completed; a call returns PathNotFound without
\* having run out of the budget only when there is no such path
ReachableIsCompleted ==
  \A i \in 1..Len(results) :
    ~results[i].budgetOut =>
      /\ Reachable(world) => results[i].type = "Completed"
      /\ results[i].type = "PathNotFound" => ~Reachable(world)


\* a spawned train ends inactive with all its units deleted
spawnedTrainEnds ==
  (game.agent = "train" /\ train.train # <<>>) ~>
    (game.agent = "train" /\ ~train.active /\ allDeleted(train))

SpawnedTrainDestination ==
  [][(game.agent = "station" /\ game'.added # game.added) =>
       /\ Len(game'.added) = Len(game.added) + 1
       /\ \A d \in {game'.added[Len(game'.added)]} :
            /\ d.source = exec.unit
            /\ d.player = game.units[exec.unit].owner
            /\ d.tick = game.ticks
            /\ d.destination # d.source
            /\ cluster'[d.source] # Null
            /\ d.destination \in stations'[cluster'[d.source]]
            /\ tradeAvailable(game, d.destination, d.player)]_vars

\* a train was sent to the station of another player while a third player's
\* station, under embargo, was in the cluster
SentToTradingPartner ==
  /\ game.agent = "station"
  /\ game.added # <<>>
  /\ game.units[game.added[1].destination].owner # game.added[1].player
  /\ cluster[exec.unit] # Null
  /\ \E s \in stations[cluster[exec.unit]] :
       ~tradeAvailable(game, s, game.added[1].player)

\* the step is a tick of the ship execution that ended in complete()
completionTick ==
  /\ Len(stopLog') = Len(stopLog) + 1
  /\ stopLog'[Len(stopLog')] = <<"completed">>

\* C39: wasCaptured never goes back to false, also when the original owner
\* has the ship again; it becomes true only in a tick, and does so in every
\* tick of a living ship whose owner is not the original owner; a ship that
\* arrives with the flag set pays its current owner only
CapturedFlagMonotone ==
  [][game.agent = "ship" =>
       /\ ship.wasCaptured => ship'.wasCaptured
       /\ ship'.wasCaptured # ship.wasCaptured =>
            game' = game /\ ship.owner # ship.origOwner
       /\ (game' = game /\ ship.built /\ ship.unitActive
             /\ ship.owner # ship.origOwner) => ship'.wasCaptured
       /\ (completionTick /\ ship'.wasCaptured) =>
            gold' = [gold EXCEPT ![ship.owner] =
                       @ + tradeShipGold(ship'.tilesTraveled,
                                         unitCount(game, ship.owner))]
       /\ (completionTick /\ ~ship'.wasCaptured) =>
            /\ ship.owner = ship.origOwner
            /\ gold' = payAll(gold,
                 <<[player |-> game.ports[ship.srcPort].owner,
                    amount |-> tradeShipGold(ship'.tilesTraveled,
                                             unitCount(game, ship.owner))],
                   [player |-> game.ports[ship.dstPort].owner,
                    amount |-> tradeShipGold(ship'.tilesTraveled,
                                             unitCount(game, ship.owner))]>>, 1)]_vars

\* a captured ship arrived after its original owner, who has the source port,
\* had it again: that owner was paid once, as the owner of the ship
RegainedShipPaidAsCaptured ==
  /\ game.agent = "ship"
  /\ completions # {}
  /\ ship.wasCaptured
  /\ ship.owner = ship.origOwner
  /\ game.ports[ship.srcPort].owner = ship.owner
  /\ gold[ship.owner] > 0
  /\ gold[ship.owner] = tradeShipGold(ship.tilesTraveled, unitCount(game, ship.owner))
  /\ \A p \in Players \ {ship.owner} : gold[p] = 0

\* the search the service made, after one call of compute
firstCall == compute(world, NewSerialAStar([world EXCEPT !.maxTries = pathTries]))

\* C40: findTilePath and findStationsPath call compute once on a new search
\* of 20 tries and leave it at that: the path returned is the reconstructed
\* path when that call returned Completed and the empty path when it returned
\* PathNotFound or Pending; with the empty path connect makes no railroad and
\* TrainExecution.init ends the train
PathServiceComputesOnce ==
  \A i \in 1..Len(results) :
    results[i].method \in {"findTilePath", "findStationsPath"} =>
      \A r \in {firstCall} :
        /\ astar = r.a
        /\ results[i].maxTries = pathTries - 1
        /\ results[i].type = r.type
        /\ results[i].path = IF r.type = "Completed" THEN reconstructPath(r.a) ELSE <<>>
        /\ results[i].type = "Completed" => results[i].path # <<>>
        /\ results[i].type \in {"Pending", "PathNotFound"} =>
             /\ results[i].path = <<>>
             /\ ~connect(railroads, 1, 2, Len(results[i].path)).ok
             /\ \A t \in {trainInit(Null, NewTrainExecution(1, 1, 2, numCars),
                                    results[i].path, stationTile(1))} :
                  ~t.active /\ t.train = <<>>

\* findTilePath returned no path for a search that was Pending after its one
\* call and that the next call of compute would have completed
PendingPathGivenUp ==
  /\ results # <<>>
  /\ results[1].method = "findTilePath"
  /\ results[1].type = "Pending"
  /\ results[1].path = <<>>
  /\ \A r \in {compute(world, astar)} :
       r.type = "Completed" /\ reconstructPath(r.a) # <<>>
====
